---- MODULE Spec2Model ----
(***************************************************************************)
(* A model of the cache-protected execution pipeline of flutter_mcp_2:     *)
(*   - CacheManager   (src/src/cache/cacheManager.js): a node-cache        *)
(*     memory tier in front of a SQLite table, keys derived by             *)
(*     generateKey;                                                        *)
(*   - CircuitBreaker and RetryHandler (src/unnamed/part_002).             *)
(* Timestamps of the cache are counted in ticks of 100 seconds, byte sizes *)
(* are exact.                                                              *)
(***************************************************************************)
EXTENDS Integers, Sequences, FiniteSets, TLC

VARIABLES
  now,          \* Date.now() as seen by the cache, in ticks of 100 s
  memoryCache,  \* this.memoryCache: key -> [v, t] (node-cache entry, t = expiry)
  db,           \* table `cache`: key -> row
  meta,         \* table `cache_metadata`, the row with id = 1
  stats,        \* this.stats
  proc,         \* "up" | "crashed" (constructor threw) | "hung" (cleanup never returns)
  hist,         \* the last get or invalidate and what it returned
  lastSet,      \* per (type, params): the last completed set of exactly that pair
  clock,        \* Date.now() as seen by the circuit breaker, in ms
  breaker,      \* the fields of the CircuitBreaker of one service
  calls,        \* per caller: its call of CircuitBreaker.execute, if one is pending
  event,        \* the last step of a call of CircuitBreaker.execute
  streak,       \* failed calls completed since the last successful one
  retry,        \* one call of RetryHandler.execute
  guard,        \* one call of RobustErrorHandler.executeWithProtection
  errorLog,     \* ErrorLogger.errors
  trunc,        \* one call of TokenManager.smartTruncate and the call on its result
  flights,      \* per worker: its call of a function wrapped by withCache
  server,       \* the tool server: requests handled, the last request and its result
  healthy,      \* the dependency behind the breaker has recovered: fn succeeds from now on
  backoff       \* one call of calculateDelay on a RetryHandler constructed with options

cacheVars == <<now, memoryCache, db, meta, stats, proc, hist, lastSet>>

breakerVars == <<clock, breaker, calls, event, streak>>

retryVars == <<retry>>

protectVars == <<guard, errorLog>>

toolVars == <<trunc, flights, server, healthy, backoff>>

vars == <<cacheVars, breakerVars, retryVars, protectVars, toolVars>>

-----------------------------------------------------------------------------
(* Bounds of the model                                                     *)

\* SpecCache: ticks the clock makes, calls of set, calls of get
MaxTime == 1
MaxWrites == 1
MaxReads == 1

\* SpecCacheWide
WideMaxTime == 2
WideMaxReads == 2

\* SpecInvalidate: calls of set, calls of get
TwoWrites == 2
OneRead == 1

\* SpecBreaker: concurrent callers, calls completed or pending, steps of the clock
MaxCallers == 3
MaxCalls == 7
MaxClockSteps == 2

\* SpecRetry, SpecProtect: calls of RetryHandler.execute
MaxRuns == 5

\* SpecProtect: calls of executeWithProtection
MaxProtected == 6

\* SpecErrorLog: calls of executeWithProtection for the service of the model
LoggedCalls == 2

\* SpecRecovery: concurrent callers
RecoveryCallers == 2

\* SpecReadThrough: workers, each making one call of a wrapped function
MaxWorkers == 2

\* SpecServer: tool requests handled
MaxRequests == 6

-----------------------------------------------------------------------------
(* JavaScript values                                                       *)

JsUndefined == [t |-> "undefined", n |-> 0]
JsNull      == [t |-> "null", n |-> 0]
JsZero      == [t |-> "number", n |-> 0]
JsVersion   == [t |-> "object", n |-> 1]   \* {version: "1.2.0"}
JsDocs      == [t |-> "object", n |-> 2]   \* a documentation object of 110 MB
JsPatch     == [t |-> "object", n |-> 3]   \* {version: "1.2.1"}
JsCircular  == [t |-> "object", n |-> 4]   \* an object that contains itself

\* the JSON-serialisable values callers store
Values == {JsZero, JsVersion, JsDocs}

CoreValues == {JsVersion, JsDocs}

\* ToBoolean, as used by `if (memoryResult)`
Truthy(v) ==
  CASE v.t = "undefined" -> FALSE
    [] v.t = "null"      -> FALSE
    [] v.t = "number"    -> v.n # 0
    [] v.t = "boolean"   -> v.n # 0
    [] OTHER             -> TRUE

JSONstringify(v) ==
  CASE v = JsNull    -> "null"
    [] v = JsZero    -> "0"
    [] v = JsVersion -> "{\"version\":\"1.2.0\"}"
    [] v = JsDocs    -> "{\"docs\":\"...\"}"
    [] v = JsPatch   -> "{\"version\":\"1.2.1\"}"

JSONparse(s) == CHOOSE v \in Values \cup {JsPatch, JsNull} : JSONstringify(v) = s

\* JSON.stringify throws a TypeError for a circular structure; it returns
\* undefined for undefined, and Buffer.byteLength throws a TypeError for that
Unserialisable == {JsCircular, JsUndefined}

\* Buffer.byteLength of the serialised value
byteLength(s) ==
  CASE s = "null" -> 4
    [] s = "0"    -> 1
    [] s = "{\"version\":\"1.2.0\"}" -> 19
    [] s = "{\"version\":\"1.2.1\"}" -> 19
    [] s = "{\"docs\":\"...\"}"      -> 110 * 1000 * 1000

-----------------------------------------------------------------------------
(* Inputs: a params object is the sequence of its own properties in        *)
(* insertion order, each a <<name, value>> pair.                            *)

Categories == {"pubPackage", "flutterDocs"}

Params ==
  { << <<"className", "Text">>, <<"library", "widgets">> >>,
    << <<"library", "widgets">>, <<"className", "Text">> >>,
    << <<"query", "http">>, <<"type", "pub_search">> >> }

Requests == Categories \X Params

\* the inputs of SpecCache: two requests whose params carry a `type` of
\* their own and one that does not; a small and a large value
CoreRequests ==
  { <<"flutterDocs", << <<"query", "http">>, <<"type", "pub_search">> >> >>,
    <<"pubPackage",  << <<"query", "http">>, <<"type", "pub_search">> >> >>,
    <<"pubPackage",  << <<"className", "Text">>, <<"library", "widgets">> >> >> }

\* the mapping an object denotes, insertion order forgotten
AsMapping(obj) == {obj[i] : i \in 1..Len(obj)}

SameMapping(p, q) == AsMapping(p) = AsMapping(q)

-----------------------------------------------------------------------------
(* generateKey                                                             *)

HasOwn(obj, name) == \E i \in 1..Len(obj) : obj[i][1] = name

\* obj[name] = value: an existing property keeps its position
PutProperty(obj, name, value) ==
  IF HasOwn(obj, name)
    THEN [i \in 1..Len(obj) |-> IF obj[i][1] = name THEN <<name, value>> ELSE obj[i]]
    ELSE Append(obj, <<name, value>>)

\* { ...obj, ...src }
RECURSIVE Spread(_, _)
Spread(obj, src) ==
  IF src = <<>> THEN obj
  ELSE Spread(PutProperty(obj, Head(src)[1], Head(src)[2]), Tail(src))

\* JSON.stringify of an object of strings: its members in property order
RECURSIVE StringifyObject(_)
StringifyObject(obj) ==
  IF obj = <<>> THEN <<>>
  ELSE <<Head(obj)[1], ":", Head(obj)[2]>> \o StringifyObject(Tail(obj))

\* createHash('sha256').update(data).digest('hex'), taken to be injective
sha256(data) == [digest |-> data]

generateKey(type, params) ==
  LET keyData == StringifyObject(Spread(<< <<"type", type>> >>, params))
  IN sha256(keyData)

\* the key of every request of the model
KeyOf == [r \in Requests |-> generateKey(r[1], r[2])]

-----------------------------------------------------------------------------
(* TTL configuration of the constructor, in seconds.  The instance is      *)
(* constructed with options {pubPackageTTL: 100, flutterDocsTTL: 200}.     *)

options == [pubPackageTTL |-> 100, flutterDocsTTL |-> 200]

ttlConfig ==
  [ widgetAnalysis |-> 86400,
    pubPackage     |-> options.pubPackageTTL,
    flutterDocs    |-> options.flutterDocsTTL,
    performance    |-> 3600,
    default        |-> 7200 ]

\* this.ttlConfig[type] || this.ttlConfig.default
TtlOf(type) == IF type \in DOMAIN ttlConfig THEN ttlConfig[type] ELSE ttlConfig.default

\* seconds * 1000 ms, in ticks of 100 s
Ticks(seconds) == seconds \div 100

\* the TTL get() gives the memory copy of a database hit
MemoryCopyTTL == 300

-----------------------------------------------------------------------------
(* The memory tier: node-cache with deleteOnExpire, an entry [v, t] where  *)
(* t is the tick it expires at (0: never).                                 *)

EmptyMap == [k \in {} |-> JsNull]

\* a deletion that deletes nothing
KeepAll(f, S) == f

Without(f, S) == [k \in (DOMAIN f) \ S |-> f[k]]

\* not expired: node-cache's _check drops an entry once t < Date.now()
NodeCacheLive(mc, key, t) ==
  key \in DOMAIN mc /\ ~(mc[key].t # 0 /\ mc[key].t < t)

\* memoryCache.get(key): the value, or undefined
NodeCacheGet(mc, key, t) ==
  IF NodeCacheLive(mc, key, t) THEN mc[key].v ELSE JsUndefined

\* the store after memoryCache.get(key): an expired entry is deleted
NodeCacheAfterGet(mc, key, t) ==
  IF key \in DOMAIN mc /\ ~NodeCacheLive(mc, key, t) THEN Without(mc, {key}) ELSE mc

\* memoryCache.set(key, value, ttl), ttl in seconds
NodeCacheSet(mc, key, value, ttl, t) ==
  (key :> [v |-> value, t |-> IF ttl = 0 THEN 0 ELSE t + Ticks(ttl)]) @@ mc

-----------------------------------------------------------------------------
(* The durable tier and its bookkeeping                                    *)

ZeroStats == [hits |-> 0, misses |-> 0, writes |-> 0, evictions |-> 0]

\* UPDATE cache_metadata SET total_<type> = total_<type> + count
updateStats(m, type, count) ==
  CASE type = "hits"      -> [m EXCEPT !.total_hits = @ + count]
    [] type = "misses"    -> [m EXCEPT !.total_misses = @ + count]
    [] type = "writes"    -> [m EXCEPT !.total_writes = @ + count]
    [] type = "evictions" -> [m EXCEPT !.total_evictions = @ + count]

\* every how many writes set() runs cleanup()
CleanupEvery == 100

\* LIMIT of one eviction batch
BatchLimit == 100

maxSize == 100 * 1024 * 1024

\* maxSize * 0.8
LowWater == (maxSize \div 10) * 8

RECURSIVE SumSize(_, _)
SumSize(d, ks) ==
  IF ks = {} THEN 0
  ELSE LET k == CHOOSE x \in ks : TRUE IN d[k].size + SumSize(d, ks \ {k})

\* SELECT SUM(size) FROM cache, NULL read as 0
TotalSize(d) == SumSize(d, DOMAIN d)

\* SELECT key FROM cache ORDER BY last_accessed ASC LIMIT 100
LruBatch(d) ==
  IF Cardinality(DOMAIN d) <= BatchLimit THEN DOMAIN d
  ELSE CHOOSE S \in SUBSET (DOMAIN d) :
         /\ Cardinality(S) = BatchLimit
         /\ \A a \in S, b \in (DOMAIN d) \ S : d[a].last_accessed <= d[b].last_accessed

\* the rows of DELETE FROM cache WHERE expires_at < ?
Expired(d, t) == {k \in DOMAIN d : d[k].expires_at < t}

\* cleanup(), run at tick t on table d, metadata m and counters s.
\* statsDefined is FALSE when the constructor runs it through initDatabase,
\* before this.stats is assigned: touching this.stats.evictions then throws.
\* outcome: "ok" (returns), "throw" (TypeError), "hang" (the loop never ends)
cleanup(d, m, s, statsDefined, t) ==
  LET expired == Expired(d, t)
      d1      == Without(d, expired)
      evicted == Cardinality(expired)
  IN
  IF evicted > 0 /\ ~statsDefined
    THEN [db |-> d1, meta |-> m, stats |-> s, outcome |-> "throw"]
    ELSE
      LET s1 == IF evicted > 0 THEN [s EXCEPT !.evictions = @ + evicted] ELSE s
          m1 == [(IF evicted > 0 THEN updateStats(m, "evictions", evicted) ELSE m)
                   EXCEPT !.last_cleanup = t]
          totalSize == TotalSize(d1)
      IN
      IF totalSize > maxSize
        THEN
          \* first pass of the loop: one batch is deleted, then counted
          LET batch == LruBatch(d1)
              d2    == Without(d1, batch)
              n     == Cardinality(batch)
          IN
          IF ~statsDefined
            THEN [db |-> d2, meta |-> m1, stats |-> s1, outcome |-> "throw"]
            ELSE
              \* totalSize is never read again, so `totalSize > maxSize * 0.8`
              \* keeps its value: with it true the loop deletes batch after
              \* batch until the table is empty and goes on running
              IF totalSize > LowWater
                THEN [db |-> EmptyMap,
                      meta |-> updateStats(m1, "evictions", Cardinality(DOMAIN d1)),
                      stats |-> [s1 EXCEPT !.evictions = @ + Cardinality(DOMAIN d1)],
                      outcome |-> "hang"]
                ELSE [db |-> d1, meta |-> m1, stats |-> s1, outcome |-> "ok"]
        ELSE [db |-> d1, meta |-> m1, stats |-> s1, outcome |-> "ok"]

-----------------------------------------------------------------------------
(* History kept for the properties                                         *)

NoParams == <<>>

Idle ==
  [op |-> "none", type |-> "", params |-> NoParams, result |-> JsUndefined, src |-> "none"]

\* ever: set was called with the pair.  live: such a call completed, with
\* value v at tick `at`, and no later set or invalidate replaced or deleted
\* its row; restarted: the process was started again since.  evicted: the
\* row of a live pair was removed by cleanup's capacity eviction.
NeverSet ==
  [ever |-> FALSE, live |-> FALSE, v |-> JsUndefined, at |-> 0,
   restarted |-> FALSE, evicted |-> FALSE]

\* the pair's row was replaced or deleted by a call
Dead == [NeverSet EXCEPT !.ever = TRUE]

\* marks the pairs whose row cleanup's capacity eviction (not its expiry
\* sweep) removed from table d, leaving table d2, at tick t
CapacityEvicted(ls, d, d2, t) ==
  [r \in Requests |->
     IF /\ ls[r].live
        /\ KeyOf[r] \in DOMAIN d
        /\ KeyOf[r] \notin DOMAIN d2
        /\ ~(d[KeyOf[r]].expires_at < t)
       THEN [ls[r] EXCEPT !.live = FALSE, !.evicted = TRUE]
       ELSE ls[r]]

-----------------------------------------------------------------------------
(* Operations of CacheManager                                              *)

\* a memory tier that is written before the value is serialised
WrittenFirst(mc, key, value, ttl, t) == NodeCacheSet(mc, key, value, ttl, t)

\* the memory tier when set throws while serialising: memoryCache.set comes
\* after JSON.stringify and Buffer.byteLength and has not run
NotYetWritten(mc, key, value, ttl, t) == mc

\* set(type, params, value) of a value that cannot be serialised
SetThrows(type, params, value) ==
  /\ memoryCache' = NotYetWritten(memoryCache, generateKey(type, params), value,
                                  TtlOf(type), now)
  /\ hist' = [Idle EXCEPT !.op = "set", !.type = type, !.params = params,
                          !.result = value, !.src = "throw"]
  /\ UNCHANGED <<db, meta, stats, proc, lastSet>>

\* set(type, params, value)
Set(type, params, value) ==
  /\ proc = "up"
  /\ IF value \in Unserialisable THEN SetThrows(type, params, value) ELSE
     LET key       == generateKey(type, params)
         ttl       == TtlOf(type)
         expiresAt == now + Ticks(ttl)
         valueStr  == JSONstringify(value)
         size      == byteLength(valueStr)
         mc1       == NodeCacheSet(memoryCache, key, value, ttl, now)
         row       == [value |-> valueStr, type |-> type, created_at |-> now,
                       expires_at |-> expiresAt, hit_count |-> 0,
                       last_accessed |-> now, size |-> size]
         db1       == (key :> row) @@ db
         s1        == [stats EXCEPT !.writes = @ + 1]
         m1        == updateStats(meta, "writes", 1)
         c         == IF s1.writes % CleanupEvery = 0
                        THEN cleanup(db1, m1, s1, TRUE, now)
                        ELSE [db |-> db1, meta |-> m1, stats |-> s1, outcome |-> "ok"]
         ls1       == [r \in Requests |->
                         IF r = <<type, params>>
                           THEN [ever |-> TRUE, live |-> c.outcome = "ok", v |-> value,
                                 at |-> now, restarted |-> FALSE, evicted |-> FALSE]
                         ELSE IF KeyOf[r] = key /\ lastSet[r].ever
                           THEN Dead
                         ELSE lastSet[r]]
     IN
       /\ memoryCache' = mc1
       /\ db' = c.db
       /\ meta' = c.meta
       /\ stats' = c.stats
       /\ proc' = IF c.outcome = "hang" THEN "hung" ELSE "up"
       /\ lastSet' = CapacityEvicted(ls1, db1, c.db, now)
       /\ hist' = Idle
  /\ UNCHANGED now

\* get(type, params)
Get(type, params) ==
  /\ proc = "up"
  /\ LET key          == generateKey(type, params)
         memoryResult == NodeCacheGet(memoryCache, key, now)
         mc1          == NodeCacheAfterGet(memoryCache, key, now)
         rowFound     == key \in DOMAIN db /\ db[key].expires_at > now
         h            == [Idle EXCEPT !.op = "get", !.type = type, !.params = params]
     IN
       IF Truthy(memoryResult)
         THEN /\ stats' = [stats EXCEPT !.hits = @ + 1]
              /\ meta' = updateStats(meta, "hits", 1)
              /\ memoryCache' = mc1
              /\ db' = db
              /\ hist' = [h EXCEPT !.result = memoryResult, !.src = "memory"]
       ELSE IF rowFound
         THEN LET value == JSONparse(db[key].value) IN
              /\ db' = [db EXCEPT ![key].hit_count = @ + 1, ![key].last_accessed = now]
              /\ memoryCache' = NodeCacheSet(mc1, key, value, MemoryCopyTTL, now)
              /\ stats' = [stats EXCEPT !.hits = @ + 1]
              /\ meta' = updateStats(meta, "hits", 1)
              /\ hist' = [h EXCEPT !.result = value, !.src = "database"]
       ELSE   /\ stats' = [stats EXCEPT !.misses = @ + 1]
              /\ meta' = updateStats(meta, "misses", 1)
              /\ memoryCache' = mc1
              /\ db' = db
              /\ hist' = [h EXCEPT !.result = JsNull, !.src = "miss"]
  /\ UNCHANGED <<now, proc, lastSet>>

\* invalidate(type, params), and invalidate(type) when hasParams is FALSE
Invalidate(type, hasParams, params) ==
  /\ proc = "up"
  /\ hist' = [Idle EXCEPT !.op = "invalidate", !.type = type,
                          !.params = IF hasParams THEN params ELSE NoParams]
  /\ IF hasParams
       THEN LET key == generateKey(type, params) IN
            /\ memoryCache' = Without(memoryCache, {key})
            /\ db' = Without(db, {key})
            /\ lastSet' = [r \in Requests |->
                             IF KeyOf[r] = key /\ lastSet[r].ever
                               THEN Dead ELSE lastSet[r]]
       ELSE /\ memoryCache' = EmptyMap
            /\ db' = Without(db, {k \in DOMAIN db : db[k].type = type})
            /\ lastSet' = [r \in Requests |->
                             IF r[1] = type /\ lastSet[r].ever
                               THEN Dead ELSE lastSet[r]]
  /\ UNCHANGED <<now, meta, stats, proc>>

\* the process ends and the module-level singleton is constructed again on
\* the same database file: new NodeCache, initDatabase() with its cleanup(),
\* and only then this.ttlConfig and this.stats
Restart ==
  /\ LET c == cleanup(db, meta, ZeroStats, FALSE, now) IN
       /\ memoryCache' = EmptyMap
       /\ db' = c.db
       /\ meta' = c.meta
       /\ stats' = ZeroStats
       /\ proc' = IF c.outcome = "ok" THEN "up" ELSE "crashed"
       /\ lastSet' = CapacityEvicted(
                       [r \in Requests |->
                          IF lastSet[r].live \/ lastSet[r].evicted
                            THEN [lastSet[r] EXCEPT !.restarted = TRUE]
                            ELSE lastSet[r]],
                       db, c.db, now)
  /\ hist' = Idle
  /\ UNCHANGED now

\* the clock moves on by 100 s
Tick ==
  /\ now' = now + 1
  /\ hist' = Idle
  /\ UNCHANGED <<memoryCache, db, meta, stats, proc, lastSet>>

\* an instance on an empty database that has completed CleanupEvery - 1
\* writes, whose rows were invalidated again: its next write runs cleanup()
InitCache ==
  /\ now = 0
  /\ memoryCache = EmptyMap
  /\ db = EmptyMap
  /\ stats = [ZeroStats EXCEPT !.writes = CleanupEvery - 1]
  /\ meta = [total_hits |-> 0, total_misses |-> 0, total_writes |-> CleanupEvery - 1,
             total_evictions |-> 0, last_cleanup |-> 0]
  /\ proc = "up"
  /\ hist = Idle
  /\ lastSet = [r \in Requests |-> NeverSet]

-----------------------------------------------------------------------------
(* CircuitBreaker (src/unnamed/part_002), constructed without options as   *)
(* RobustErrorHandler.getCircuitBreaker constructs it.  reset() has no     *)
(* caller in the repository and is left out.                               *)

JsNumber(n) == [t |-> "number", n |-> n]

\* ToNumber of a number or of null (0), as `<` applies it to its operands
ToNumber(v) == v.n

failureThreshold == 5

resetTimeout == 60000

\* the clock moves in steps of half a resetTimeout
ClockStep == resetTimeout \div 2

Callers == 1..MaxCallers

\* the fields the constructor assigns
CircuitBreaker ==
  [state |-> "CLOSED", failures |-> 0, lastFailureTime |-> JsNull,
   nextAttemptTime |-> JsNull, successCount |-> 0, requestCount |-> 0]

\* a breaker that opens one failure late
ThresholdExceeded(failures) == failures > failureThreshold

\* this.failures >= this.failureThreshold
ThresholdReached(failures) == failures >= failureThreshold

\* a breaker outside the retry handler: it counts every attempt
CountsEveryAttempt(b, t) ==
  LET b1 == [b EXCEPT !.failures = @ + retry.invocations,
                      !.requestCount = @ + retry.invocations,
                      !.lastFailureTime = JsNumber(t)]
  IN IF ThresholdReached(b1.failures)
       THEN [b1 EXCEPT !.state = "OPEN", !.nextAttemptTime = JsNumber(t + resetTimeout)]
       ELSE b1

onSuccess(b) ==
  LET b1 == [b EXCEPT !.failures = 0, !.successCount = @ + 1, !.requestCount = @ + 1]
  IN IF b1.state = "HALF_OPEN" THEN [b1 EXCEPT !.state = "CLOSED"] ELSE b1

\* onFailure() at time t
onFailure(b, t) ==
  LET b1 == [b EXCEPT !.failures = @ + 1, !.requestCount = @ + 1,
                      !.lastFailureTime = JsNumber(t)]
  IN IF ThresholdReached(b1.failures)
       THEN [b1 EXCEPT !.state = "OPEN", !.nextAttemptTime = JsNumber(t + resetTimeout)]
       ELSE b1

\* execute() returns the fallback or throws without calling fn
Rejects(b, t) == b.state = "OPEN" /\ t < ToNumber(b.nextAttemptTime)

\* a breaker that is never tried again once it is open
StaysOpen(b) == b

\* the breaker once execute() has passed its check of this.state
Admit(b) == IF b.state = "OPEN" THEN [b EXCEPT !.state = "HALF_OPEN"] ELSE b

NoCall == [status |-> "idle", fallback |-> FALSE, trial |-> FALSE]

NoEvent ==
  [kind |-> "none", caller |-> 0, invoked |-> FALSE, outcome |-> "none",
   trial |-> FALSE, preState |-> ""]

Pending == {c \in Callers : calls[c].status = "running"}

\* execute(fn, fallback) up to `await fn()`: the check of the state and, when
\* it passes, the call of fn.  trial: this call moved the breaker from OPEN
\* to HALF_OPEN.
Arrive(c, hasFallback) ==
  /\ calls[c].status = "idle"
  /\ IF Rejects(breaker, clock)
       THEN /\ event' = [kind |-> "arrive", caller |-> c, invoked |-> FALSE,
                         outcome |-> IF hasFallback THEN "fallback" ELSE "circuit_open",
                         trial |-> FALSE, preState |-> breaker.state]
            /\ UNCHANGED <<breaker, calls>>
       ELSE /\ breaker.requestCount + Cardinality(Pending) < MaxCalls
            /\ breaker' = Admit(breaker)
            /\ calls' = [calls EXCEPT ![c] = [status |-> "running", fallback |-> hasFallback,
                                              trial |-> breaker.state = "OPEN"]]
            /\ event' = [kind |-> "arrive", caller |-> c, invoked |-> TRUE,
                         outcome |-> "pending", trial |-> breaker.state = "OPEN",
                         preState |-> breaker.state]
  /\ UNCHANGED <<clock, streak>>

\* an execute() that drops the result of a call whose caller has timed out
SucceedUnlessTimedOut(c) ==
  /\ calls[c].status = "running"
  /\ breaker' = IF guard.first = "timer" THEN breaker
                ELSE [breaker EXCEPT !.failures = 0, !.successCount = @ + 1,
                                     !.requestCount = @ + 1,
                                     !.state = IF @ = "HALF_OPEN" THEN "CLOSED" ELSE @]
  /\ calls' = [calls EXCEPT ![c] = NoCall]
  /\ event' = [kind |-> "succeeded", caller |-> c, invoked |-> TRUE, outcome |-> "value",
               trial |-> calls[c].trial, preState |-> breaker.state]
  /\ streak' = 0
  /\ UNCHANGED clock

\* fn() resolves: onSuccess(), the result is returned
Succeed(c) ==
  /\ calls[c].status = "running"
  /\ breaker' = onSuccess(breaker)
  /\ calls' = [calls EXCEPT ![c] = NoCall]
  /\ event' = [kind |-> "succeeded", caller |-> c, invoked |-> TRUE, outcome |-> "value",
               trial |-> calls[c].trial, preState |-> breaker.state]
  /\ streak' = 0
  /\ UNCHANGED clock

\* fn() rejects: onFailure(), then the fallback or the error
Fail(c) ==
  /\ calls[c].status = "running"
  /\ breaker' = onFailure(breaker, clock)
  /\ calls' = [calls EXCEPT ![c] = NoCall]
  /\ event' = [kind |-> "failed", caller |-> c, invoked |-> TRUE,
               outcome |-> IF calls[c].fallback THEN "fallback" ELSE "error",
               trial |-> calls[c].trial, preState |-> breaker.state]
  /\ streak' = streak + 1
  /\ UNCHANGED clock

ClockTick ==
  /\ clock' = clock + ClockStep
  /\ event' = NoEvent
  /\ UNCHANGED <<breaker, calls, streak>>

\* time passes while the breaker may still be tried: up to the bound of the
\* clock, and beyond it until an open breaker's nextAttemptTime is reached
ClockAdvance ==
  /\ \/ clock < MaxClockSteps * ClockStep
     \/ breaker.state = "OPEN" /\ clock < ToNumber(breaker.nextAttemptTime)
  /\ ClockTick

\* execute() passes its check of the state and calls fn
Admitted(c, hasFallback) == ~Rejects(breaker, clock) /\ Arrive(c, hasFallback)

\* the dependency recovers: from now on fn resolves
Recover ==
  /\ ~healthy
  /\ healthy' = TRUE
  /\ event' = NoEvent
  /\ UNCHANGED <<clock, breaker, calls, streak>>

InitHealth == healthy = FALSE

InitBreaker ==
  /\ clock = 0
  /\ breaker = CircuitBreaker
  /\ calls = [c \in Callers |-> NoCall]
  /\ event = NoEvent
  /\ streak = 0

-----------------------------------------------------------------------------
(* RetryHandler (src/unnamed/part_002), constructed without options as     *)
(* RobustErrorHandler constructs it                                        *)

maxRetries == 3

initialDelay == 1000

maxDelay == 10000

factor == 2

\* options.jitter || true
jitter == TRUE

\* what fn may throw, and what it may return
Errors == {"NetworkError", "ValidationError"}

Returns == {JsZero, JsVersion}

\* Math.random(), in thousandths
Randoms == {0, 500, 999}

RECURSIVE MathPow(_, _)
MathPow(x, n) == IF n = 0 THEN 1 ELSE x * MathPow(x, n - 1)

MathMin(a, b) == IF a < b THEN a ELSE b

\* calculateDelay(attempt) with Math.random() = random / 1000:
\* Math.floor(delay * (0.5 + Math.random() * 0.5))
calculateDelay(attempt, random) ==
  LET delay == MathMin(initialDelay * MathPow(factor, attempt), maxDelay)
  IN IF jitter THEN (delay * (1000 + random)) \div 2000 ELSE delay

\* a loop that gives up one attempt early
LoopStopsEarly(attempt) == attempt < maxRetries

\* the condition of the for loop: attempt <= this.maxRetries
LoopContinues(attempt) == attempt <= maxRetries

\* new Error(`Failed after ${this.maxRetries + 1} attempts: ${lastError.message}`)
FailedAfter(lastError) == <<"Failed after", maxRetries + 1, "attempts:", lastError>>

\* pc: where execute() is.  fnLog: what each call of fn settled with, in
\* order.  delays: the delays slept so far.
NoRetry ==
  [pc |-> "idle", attempt |-> 0, invocations |-> 0, lastError |-> "",
   result |-> JsUndefined, error |-> <<>>, fnLog |-> <<>>, delays |-> <<>>, runs |-> 0]

\* execute(fn) is called
Execute ==
  /\ retry.pc \in {"idle", "resolved", "rejected"}
  /\ retry.runs < MaxRuns
  /\ retry' = [NoRetry EXCEPT !.pc = "loop", !.runs = retry.runs + 1]

\* the head of the loop: fn() is called, or the loop ends and execute throws
Loop ==
  /\ retry.pc = "loop"
  /\ IF LoopContinues(retry.attempt)
       THEN retry' = [retry EXCEPT !.pc = "awaiting", !.invocations = @ + 1]
       ELSE retry' = [retry EXCEPT !.pc = "rejected", !.error = FailedAfter(retry.lastError)]

\* fn() resolves with value: execute returns it
FnResolves(value) ==
  /\ retry.pc = "awaiting"
  /\ retry' = [retry EXCEPT !.pc = "resolved", !.result = value,
                            !.fnLog = Append(@, [ok |-> TRUE, v |-> value])]

\* fn() rejects with error: sleep before the next attempt if there is one
FnRejects(error, random) ==
  /\ retry.pc = "awaiting"
  /\ LET r1 == [retry EXCEPT !.lastError = error,
                             !.fnLog = Append(@, [ok |-> FALSE, v |-> JsUndefined])]
     IN IF retry.attempt < maxRetries
          THEN retry' = [r1 EXCEPT !.pc = "sleeping",
                                   !.delays = Append(@, calculateDelay(retry.attempt, random))]
          ELSE /\ random = 0
               /\ retry' = [r1 EXCEPT !.pc = "loop", !.attempt = @ + 1]

\* the timer of sleep(delay) fires
Wake ==
  /\ retry.pc = "sleeping"
  /\ retry' = [retry EXCEPT !.pc = "loop", !.attempt = @ + 1]

InitRetry == retry = NoRetry

-----------------------------------------------------------------------------
(* RetryHandler constructed with options: every field is `options.x ||     *)
(* default`, so an option that is falsy gives way to the default           *)

JsTrue == [t |-> "boolean", n |-> 1]

JsFalse == [t |-> "boolean", n |-> 0]

\* a || b
Or(a, b) == IF Truthy(a) THEN a ELSE b

\* new RetryHandler(options)
RetryHandler(opts) ==
  [maxRetries   |-> Or(opts.maxRetries, JsNumber(maxRetries)),
   initialDelay |-> Or(opts.initialDelay, JsNumber(initialDelay)),
   maxDelay     |-> Or(opts.maxDelay, JsNumber(maxDelay)),
   factor       |-> Or(opts.factor, JsNumber(factor)),
   jitter       |-> Or(opts.jitter, JsTrue)]

\* Math.floor(x * (0.5 + Math.random() * 0.5)), Math.random() = random / 1000
Jittered(x, random) == (x * (1000 + random)) \div 2000

\* handler.calculateDelay(attempt) with Math.random() = random / 1000
calculateDelayOf(handler, attempt, random) ==
  LET delay == MathMin(ToNumber(handler.initialDelay)
                         * MathPow(ToNumber(handler.factor), attempt),
                       ToNumber(handler.maxDelay))
  IN IF Truthy(handler.jitter) THEN Jittered(delay, random) ELSE delay

\* the options the handler is constructed with: none, those of a handler
\* with two retries from 100 ms, a cap below the second delay, no initial
\* delay, and jitter left out, switched on and switched off
RetryOptions ==
  [maxRetries   : {JsUndefined, JsNumber(2)},
   initialDelay : {JsUndefined, JsNumber(100), JsNumber(0)},
   maxDelay     : {JsUndefined, JsNumber(150)},
   factor       : {JsUndefined, JsNumber(2)},
   jitter       : {JsUndefined, JsTrue, JsFalse}]

NoBackoff ==
  [pc |-> "idle", options |-> [maxRetries |-> JsUndefined, initialDelay |-> JsUndefined,
                               maxDelay |-> JsUndefined, factor |-> JsUndefined,
                               jitter |-> JsUndefined],
   attempt |-> 0, random |-> 0, delay |-> 0]

\* execute() computes the delay after failed attempt number `attempt`, which
\* it does while attempt < this.maxRetries
CalculateDelay(opts, attempt, random) ==
  LET handler == RetryHandler(opts) IN
  /\ attempt < ToNumber(handler.maxRetries)
  /\ backoff' = [pc |-> "done", options |-> opts, attempt |-> attempt, random |-> random,
                 delay |-> calculateDelayOf(handler, attempt, random)]

InitBackoff == backoff = NoBackoff

-----------------------------------------------------------------------------
(* RobustErrorHandler.executeWithProtection (src/unnamed/part_002) for one *)
(* service, called with the default options retry = true, timeout = 30000  *)
(* and with or without a fallback.  The caller of the model is caller 1 of *)
(* the breaker; its fn is retryHandler.execute(fn).                        *)

timeout == 30000

maxErrorHistory == 100

\* what the caller of executeWithProtection, or of an inner call, gets
NoOutcome ==
  [kind |-> "none", type |-> "", v |-> JsUndefined, message |-> <<>>,
   data |-> "", timeout |-> 0]

ValueOutcome(value) == [NoOutcome EXCEPT !.kind = "value", !.v = value]

\* the return value of fallback()
FallbackOutcome == [NoOutcome EXCEPT !.kind = "fallback"]

\* new Error(message): constructor name Error, no further fields
PlainError(message) == [NoOutcome EXCEPT !.kind = "error", !.type = "Error", !.message = message]

\* new NetworkError(message, statusCode), new ValidationError(message, field)
UnderlyingError(type) ==
  [NoOutcome EXCEPT !.kind = "error", !.type = type, !.message = <<type>>,
                    !.data = IF type = "NetworkError" THEN "statusCode" ELSE "field"]

\* new TimeoutError(`Operation timed out after ${timeout}ms`, timeout)
TimeoutError ==
  [NoOutcome EXCEPT !.kind = "error", !.type = "TimeoutError",
                    !.message = <<"Operation timed out after", timeout, "ms">>,
                    !.timeout = timeout]

\* new Error(`Circuit breaker is OPEN. Service unavailable until ...`)
CircuitOpenError(b) ==
  PlainError(<<"Circuit breaker is OPEN. Service unavailable until",
               ToNumber(b.nextAttemptTime)>>)

\* a log that, once full, keeps what it has and drops the new entry
LogDropsNewest(errors, error) ==
  IF Len(errors) >= maxErrorHistory THEN errors
  ELSE Append(errors, [type |-> error.type, message |-> error.message])

\* ErrorLogger.log: push, and shift once the history is longer than its bound
ErrorLoggerLog(errors, error) ==
  LET pushed == Append(errors, [type |-> error.type, message |-> error.message])
  IN IF Len(pushed) > maxErrorHistory THEN Tail(pushed) ELSE pushed

\* a later settlement replaces the result of the race
RaceLastWins(g, who, outcome) ==
  [g EXCEPT !.pc = "done", !.outcome = outcome, !.first = IF @ = "none" THEN who ELSE @]

\* Promise.race: the first of operation() and timeoutPromise to settle
\* settles the race, later settlements change nothing
PromiseRace(g, who, outcome) ==
  IF g.pc = "racing"
    THEN [g EXCEPT !.pc = "done", !.outcome = outcome, !.first = who]
    ELSE g

\* the catch of executeWithProtection: a rejection of the race is logged
LogIfThrown(g, g1, errors) ==
  IF g.pc = "racing" /\ g1.pc = "done" /\ g1.outcome.kind = "error"
    THEN ErrorLoggerLog(errors, g1.outcome)
    ELSE errors

\* the counters of the breaker, as getStatus() reports them
Counters(b) ==
  [failures |-> b.failures, successCount |-> b.successCount,
   requestCount |-> b.requestCount]

\* pc: "idle", "racing" (awaiting Promise.race) or "done" (the caller has
\* its outcome).  op, opOutcome: the promise of operation().  order: the
\* settlements of operation() and of timeoutPromise in the order they
\* happened.  n: calls made so far.  admitted: the breaker let the call
\* through to the retry handler.  before: the breaker's counters when the
\* call was made; atTimeout: the breaker and the number of calls of fn when
\* the timer fired.
NoGuard ==
  [pc |-> "idle", fallback |-> FALSE, startedAt |-> 0, timer |-> "none",
   op |-> "none", opOutcome |-> NoOutcome, outcome |-> NoOutcome,
   first |-> "none", order |-> <<>>, n |-> 0, admitted |-> FALSE,
   before |-> Counters(CircuitBreaker),
   atTimeout |-> [breaker |-> CircuitBreaker, invocations |-> 0]]

\* operation() has settled with outcome o
OpSettles(g, o) ==
  PromiseRace([g EXCEPT !.op = "settled", !.opOutcome = o, !.order = Append(@, "op")],
              "op", o)

\* executeWithProtection(service, fn, {fallback}) up to the await of the
\* race: the timer is armed and circuitBreaker.execute runs up to its first
\* await.  An open breaker settles operation() at once, before any timer.
executeWithProtection(hasFallback) ==
  /\ guard.pc # "racing"
  /\ Arrive(1, hasFallback)
  /\ LET g == [NoGuard EXCEPT !.pc = "racing", !.fallback = hasFallback,
                              !.startedAt = clock, !.timer = "armed",
                              !.op = "pending", !.n = guard.n + 1,
                              !.admitted = ~Rejects(breaker, clock),
                              !.before = Counters(breaker)]
     IN IF Rejects(breaker, clock)
          THEN LET g1 == OpSettles(g, IF hasFallback THEN FallbackOutcome
                                                     ELSE CircuitOpenError(breaker))
               IN /\ guard' = g1
                  /\ errorLog' = LogIfThrown(g, g1, errorLog)
                  /\ UNCHANGED retry
          ELSE /\ Execute
               /\ guard' = g
               /\ UNCHANGED errorLog

\* a call of executeWithProtection within the budget of SpecProtect
Protect(hasFallback) ==
  /\ guard.n < MaxProtected
  /\ executeWithProtection(hasFallback)

\* a call of executeWithProtection within the budget of SpecErrorLog
ProtectLogged(hasFallback) ==
  /\ guard.n < LoggedCalls
  /\ executeWithProtection(hasFallback)

\* the set of the types of the entries
ErrorTypes(errors) == {errors[i].type : i \in DOMAIN errors}

\* ErrorLogger.getErrorStats: total and byType
getErrorStats(errors) ==
  [total  |-> Len(errors),
   byType |-> [type \in ErrorTypes(errors) |->
                 Cardinality({i \in DOMAIN errors : errors[i].type = type})]]

\* a call of executeWithProtection for another service rejects: the
\* singleton's logger is shared by all services.  Those calls fail by turns
\* with a timeout and with retries exhausted.
OtherServiceRejects ==
  /\ guard.n = 0
  /\ Len(errorLog) < maxErrorHistory
  /\ errorLog' = ErrorLoggerLog(errorLog,
                   IF Len(errorLog) % 2 = 0 THEN TimeoutError
                   ELSE PlainError(FailedAfter("NetworkError")))
  /\ UNCHANGED guard

\* retryHandler.execute(fn) resolved: onSuccess(), operation() resolves
OpResolves ==
  /\ retry.pc = "resolved"
  /\ Succeed(1)
  /\ LET g1 == OpSettles(guard, ValueOutcome(retry.result))
     IN /\ guard' = g1
        /\ errorLog' = LogIfThrown(guard, g1, errorLog)
  /\ UNCHANGED retry

\* retryHandler.execute(fn) rejected: onFailure(), then operation() resolves
\* with the fallback's result or rejects with the handler's error
OpRejects ==
  /\ retry.pc = "rejected"
  /\ LET o  == IF calls[1].fallback THEN FallbackOutcome ELSE PlainError(retry.error)
         g1 == OpSettles(guard, o)
     IN /\ guard' = g1
        /\ errorLog' = LogIfThrown(guard, g1, errorLog)
  /\ Fail(1)
  /\ UNCHANGED retry

\* the timer of timeoutPromise fires: it rejects with a TimeoutError
TimerFires ==
  /\ guard.timer = "armed"
  /\ clock >= guard.startedAt + timeout
  /\ LET g1 == PromiseRace([guard EXCEPT !.timer = "fired", !.order = Append(@, "timer"),
                                         !.atTimeout = [breaker |-> breaker,
                                                        invocations |-> retry.invocations]],
                           "timer", TimeoutError)
     IN /\ guard' = g1
        /\ errorLog' = LogIfThrown(guard, g1, errorLog)
  /\ UNCHANGED <<breakerVars, retry>>

InitProtect ==
  /\ guard = NoGuard
  /\ errorLog = <<>>

-----------------------------------------------------------------------------
(* TokenManager (src/src/utils/tokenManager.js).  A JavaScript string is   *)
(* the sequence of its characters; a payload is a tagged record: a string, *)
(* a number, null, an array of payloads, or an object, which is the        *)
(* sequence of its own properties in insertion order.  The tokenizer of    *)
(* gpt-3-encoder is outside the repository: encode is modelled as cutting  *)
(* the text into tokens of w characters, for each w of TokenWidths.        *)

Digits == <<"0", "1", "2", "3", "4", "5", "6", "7", "8", "9">>

\* a text of n characters
Text(n) == [i \in 1..n |-> Digits[(i % 10) + 1]]

Undefined == [t |-> "undefined"]

Null == [t |-> "null"]

Str(s) == [t |-> "string", s |-> s]

Num(n) == [t |-> "number", n |-> n]

Arr(items) == [t |-> "array", items |-> items]

Obj(props) == [t |-> "object", props |-> props]

\* Number.prototype.toString of a natural number
RECURSIVE Decimal(_)
Decimal(n) ==
  IF n < 10 THEN <<Digits[n + 1]>>
  ELSE Decimal(n \div 10) \o <<Digits[(n % 10) + 1]>>

\* String(content) of a scalar
String(content) ==
  CASE content.t = "number"    -> Decimal(content.n)
    [] content.t = "undefined" -> <<"u", "n", "d", "e", "f", "i", "n", "e", "d">>

\* Array.prototype.join(",")
RECURSIVE JoinComma(_)
JoinComma(parts) ==
  IF Len(parts) = 0 THEN <<>>
  ELSE IF Len(parts) = 1 THEN parts[1]
  ELSE parts[1] \o <<",">> \o JoinComma(Tail(parts))

Quote(s) == <<"\"">> \o s \o <<"\"">>

\* JSON.stringify of a payload, without indentation
RECURSIVE JSONtext(_)
JSONtext(v) ==
  CASE v.t = "string" -> Quote(v.s)
    [] v.t = "number" -> Decimal(v.n)
    [] v.t = "null"   -> <<"n", "u", "l", "l">>
    [] v.t = "array"  ->
         <<"[">> \o JoinComma([i \in DOMAIN v.items |-> JSONtext(v.items[i])]) \o <<"]">>
    [] v.t = "object" ->
         <<"{">>
         \o JoinComma([i \in DOMAIN v.props |->
                         Quote(v.props[i][1]) \o <<":">> \o JSONtext(v.props[i][2])])
         \o <<"}">>

\* the widths of a token, in characters
TokenWidths == {1, 4}

\* encode of gpt-3-encoder: the tokens of a text
encode(text, w) ==
  [i \in 1..((Len(text) + w - 1) \div w) |->
     SubSeq(text, (i - 1) * w + 1, IF i * w < Len(text) THEN i * w ELSE Len(text))]

countTokens(text, w) == Len(encode(text, w))

maxTokens == 4000

\* String.prototype.substring(0, n)
Substring(text, n) == SubSeq(text, 1, IF n < 0 THEN 0 ELSE IF n > Len(text) THEN Len(text) ELSE n)

Ellipsis == <<".", ".", ".">>

ShrinkStep == 10

\* the fine-tuning loop of truncateToLimit
RECURSIVE Shrink(_, _, _)
Shrink(truncated, limit, w) ==
  IF countTokens(truncated, w) > limit /\ Len(truncated) > ShrinkStep
    THEN Shrink(Substring(truncated, Len(truncated) - ShrinkStep), limit, w)
    ELSE truncated

\* truncateToLimit with its default options (priority 'start', addEllipsis)
truncateToLimit(text, limit, w) ==
  LET currentTokens == countTokens(text, w) IN
  IF currentTokens <= limit THEN text
  ELSE LET \* Math.floor(text.length * (limit / currentTokens) * 0.9)
           estimatedLength == (Len(text) * limit * 9) \div (currentTokens * 10)
       IN Shrink(Substring(text, estimatedLength) \o Ellipsis, limit, w)

priorityKeys ==
  << <<"s", "u", "m", "m", "a", "r", "y">>,
     <<"d", "e", "s", "c", "r", "i", "p", "t", "i", "o", "n">>,
     <<"t", "i", "t", "l", "e">>,
     <<"n", "a", "m", "e">>,
     <<"e", "r", "r", "o", "r">>,
     <<"m", "e", "s", "s", "a", "g", "e">> >>

deprioritizeKeys ==
  << <<"m", "e", "t", "a", "d", "a", "t", "a">>,
     <<"d", "e", "b", "u", "g">>,
     <<"r", "a", "w">>,
     <<"i", "n", "t", "e", "r", "n", "a", "l">> >>

Includes(keys, key) == \E i \in DOMAIN keys : keys[i] = key

\* Object.entries(obj): of an array, its elements under their indices
ObjectEntries(obj) ==
  CASE obj.t = "object" -> obj.props
    [] obj.t = "array"  -> [i \in DOMAIN obj.items |-> <<Decimal(i - 1), obj.items[i]>>]

\* obj[key], for a key that is not an array index
Property(obj, key) ==
  IF obj.t = "object" /\ \E i \in DOMAIN obj.props : obj.props[i][1] = key
    THEN obj.props[CHOOSE i \in DOMAIN obj.props : obj.props[i][1] = key][2]
    ELSE Undefined

MaxItems == 10

MoreItems(n) ==
  Str(<<".", ".", ".", " ", "a", "n", "d", " ">> \o Decimal(n)
      \o <<" ", "m", "o", "r", "e", " ", "i", "t", "e", "m", "s">>)

\* the running state of truncateObject: result and currentTokens
EmptyResult == [result |-> <<>>, currentTokens |-> 2]

\* if (currentTokens + valueTokens <= limit) { result[key] = value; ... }
AddField(acc, key, value, limit, w) ==
  LET valueTokens == countTokens(JSONtext(Obj(<< <<key, value>> >>)), w) IN
  IF acc.currentTokens + valueTokens <= limit
    THEN [result |-> Append(acc.result, <<key, value>>),
          currentTokens |-> acc.currentTokens + valueTokens]
    ELSE acc

RECURSIVE truncateValue(_, _, _)
RECURSIVE truncateObject(_, _, _)
RECURSIVE AddPriorityFields(_, _, _, _, _)
RECURSIVE AddOtherFields(_, _, _, _, _)
RECURSIVE AddDeprioritizedFields(_, _, _, _, _)

\* the first loop of truncateObject, from the i-th priority key on
AddPriorityFields(obj, limit, w, i, acc) ==
  IF i > Len(priorityKeys) THEN acc
  ELSE LET key == priorityKeys[i] IN
       AddPriorityFields(obj, limit, w, i + 1,
         IF Property(obj, key) # Undefined
           THEN AddField(acc, key,
                         truncateValue(Property(obj, key), (limit * 3) \div 10, w),
                         limit, w)
           ELSE acc)

\* the second loop, from the i-th entry of the object on
AddOtherFields(obj, limit, w, i, acc) ==
  IF i > Len(ObjectEntries(obj)) THEN acc
  ELSE LET key   == ObjectEntries(obj)[i][1]
           value == ObjectEntries(obj)[i][2]
       IN AddOtherFields(obj, limit, w, i + 1,
            IF ~Includes(priorityKeys, key) /\ ~Includes(deprioritizeKeys, key)
              THEN AddField(acc, key,
                            truncateValue(value, (limit - acc.currentTokens) \div 2, w),
                            limit, w)
              ELSE acc)

\* the third loop, from the i-th deprioritized key on
AddDeprioritizedFields(obj, limit, w, i, acc) ==
  IF i > Len(deprioritizeKeys) THEN acc
  ELSE LET key == deprioritizeKeys[i] IN
       AddDeprioritizedFields(obj, limit, w, i + 1,
         IF Property(obj, key) # Undefined /\ 10 * acc.currentTokens < 9 * limit
           THEN LET remainingTokens == limit - acc.currentTokens IN
                AddField(acc, key,
                         truncateValue(Property(obj, key), (remainingTokens * 8) \div 10, w),
                         limit, w)
           ELSE acc)

\* truncateObject of an object or an array (of null it throws: see smartTruncate)
truncateObject(obj, limit, w) ==
  Obj(AddDeprioritizedFields(obj, limit, w, 1,
        AddOtherFields(obj, limit, w, 1,
          AddPriorityFields(obj, limit, w, 1, EmptyResult))).result)

truncateValue(value, limit, w) ==
  CASE value.t = "string" -> Str(truncateToLimit(value.s, limit, w))
    [] value.t = "array"  ->
         LET length    == Len(value.items)
             itemLimit == limit \div (IF length > 1 THEN length ELSE 1)
             kept      == IF length < MaxItems THEN length ELSE MaxItems
             truncated == [i \in 1..kept |-> truncateValue(value.items[i], itemLimit, w)]
         IN Arr(IF length > kept
                  THEN Append(truncated, MoreItems(length - kept))
                  ELSE truncated)
    [] value.t = "object" -> truncateObject(value, limit, w)
    [] OTHER              -> value

\* how a call ends: with a value returned or with an error thrown
NoResult == [kind |-> "none", v |-> Undefined]

Returned(v) == [kind |-> "return", v |-> v]

Thrown == [kind |-> "throw", v |-> Undefined]

\* typeof null is 'object', and truncateObject reads obj[key] of it
smartTruncate(content, limit, w) ==
  CASE content.t = "string" -> Returned(Str(truncateToLimit(content.s, limit, w)))
    [] content.t = "null"   -> Thrown
    [] content.t \in {"object", "array"} -> Returned(truncateObject(content, limit, w))
    [] OTHER                -> Returned(Str(String(content)))

\* payloads: lengths of the long text and of the long list
TextLength == 45
ListLength == 12

KeyChildren == <<"c", "h", "i", "l", "d", "r", "e", "n">>

KeyName == priorityKeys[4]

KeyTitle == priorityKeys[3]

KeyError == priorityKeys[5]

KeyMetadata == deprioritizeKeys[1]

KeyData == <<"d", "a", "t", "a">>

Contents ==
  { Str(<<>>),
    Str(Text(5)),
    Str(Text(TextLength)),
    Num(12345),
    Null,
    Arr(<<>>),
    Arr(<<Str(Text(3)), Str(Text(4))>>),
    Obj(<<>>),
    Obj(<< <<KeyName, Str(Text(4))>>,
           <<KeyChildren, Arr([i \in 1..ListLength |-> Str(Text(1))])>> >>),
    Obj(<< <<KeyTitle, Str(Text(TextLength))>>,
           <<KeyMetadata, Obj(<< <<KeyName, Str(Text(2))>> >>)>> >>),
    Obj(<< <<KeyData, Obj(<< <<KeyData, Obj(<< <<KeyName, Str(Text(3))>> >>)>> >>)>> >>),
    Obj(<< <<KeyError, Null>>, <<KeyData, Num(7)>> >>) }

Limits == {0, 1, 5, 20, 100, maxTokens}

NoTruncation ==
  [pc |-> "idle", content |-> Undefined, limit |-> 0, width |-> 1,
   once |-> NoResult, twice |-> NoResult]

\* a caller hands a payload to smartTruncate
SmartTruncate(content, limit, w) ==
  /\ trunc.pc = "idle"
  /\ trunc' = [NoTruncation EXCEPT !.pc = "once", !.content = content,
                 !.limit = limit, !.width = w,
                 !.once = smartTruncate(content, limit, w)]

\* the result is handed to smartTruncate once more, under the same limit
TruncateAgain ==
  /\ trunc.pc = "once"
  /\ trunc.once.kind = "return"
  /\ trunc' = [trunc EXCEPT !.pc = "twice",
                 !.twice = smartTruncate(trunc.once.v, trunc.limit, trunc.width)]

InitTruncate == trunc = NoTruncation

-----------------------------------------------------------------------------
(* withCache (cacheManager.js): the function it returns, called by         *)
(* workers whose calls interleave at the awaits.  fn is the producer.      *)

Workers == 1..MaxWorkers

\* what fn resolves to
Produced == {JsZero, JsVersion, JsPatch}

\* prior: the pair's last set as it was when the call began.  rivals: the
\* workers that had missed on the same key and were awaiting fn when this
\* worker missed.  expiresAt: the expiry of the row the call wrote.
NoFlight ==
  [pc |-> "idle", type |-> "", params |-> NoParams, calledAt |-> 0,
   prior |-> NeverSet, hit |-> FALSE, rivals |-> {}, invocations |-> 0,
   wrote |-> FALSE, expiresAt |-> 0, result |-> JsUndefined]

FlightKey(f) == generateKey(f.type, f.params)

\* const cached = await this.get(type, params); if (cached) return cached;
\* otherwise fn(params) is invoked
FlightCall(c, type, params) ==
  /\ flights[c].pc = "idle"
  /\ Get(type, params)
  /\ LET cached == hist'.result
         f      == [NoFlight EXCEPT !.type = type, !.params = params,
                      !.calledAt = now, !.prior = lastSet[<<type, params>>]]
     IN flights' =
          [flights EXCEPT ![c] =
             IF Truthy(cached)
               THEN [f EXCEPT !.pc = "done", !.hit = TRUE, !.result = cached]
               ELSE [f EXCEPT !.pc = "producing", !.invocations = 1,
                       !.rivals = {d \in Workers :
                                     /\ flights[d].pc = "producing"
                                     /\ FlightKey(flights[d]) = generateKey(type, params)}]]

\* fn resolves: if (result) await this.set(type, params, result); return result
FlightProduce(c, result) ==
  /\ flights[c].pc = "producing"
  /\ IF Truthy(result)
       THEN Set(flights[c].type, flights[c].params, result)
       ELSE UNCHANGED cacheVars
  /\ flights' =
       [flights EXCEPT ![c] =
          [@ EXCEPT !.pc = "done", !.result = result, !.wrote = Truthy(result),
             !.expiresAt = IF Truthy(result) THEN db'[FlightKey(flights[c])].expires_at
                          ELSE 0]]

InitFlights == flights = [c \in Workers |-> NoFlight]

-----------------------------------------------------------------------------
(* The CallToolRequestSchema handler of index.js.  A text is the sequence  *)
(* of its fragments; a template literal concatenates them.                 *)

\* the own properties of unifiedToolHandlers
UnifiedToolNames == {"flutter_search", "flutter_analyze", "flutter_status"}

\* the cases of the switch that are modelled
LegacyToolNames == {"analyze_widget"}

\* properties unifiedToolHandlers inherits from Object.prototype: functions,
\* and __proto__, which is an object
InheritedFunctions == {"toString", "constructor"}

InheritedObjects == {"__proto__"}

ToolNames ==
  {"flutter_search", "analyze_widget", "invalid_tool"}
  \cup InheritedFunctions \cup InheritedObjects

\* what happens inside the tool: nothing goes wrong; the upstream request
\* fails; the tool's code throws inside its try block; it throws before it
Modes == {"ok", "network", "throwsInside", "throwsOutside"}

\* how a function call ends
ToolResult(text) == [kind |-> "result", text |-> text]

\* a value that is no tool result: it has no content
PlainValue(text) == [kind |-> "value", text |-> text]

Throws(message) == [kind |-> "throw", text |-> message]

NoResponse == [kind |-> "none", text |-> <<>>]

\* flutterSearch: the helpers catch a failed upstream request and return [],
\* the results are then formatted as usual
flutterSearch(mode) ==
  CASE mode = "ok"            -> ToolResult(<<"{\"totalResults\":", "1", "}">>)
    [] mode = "network"       -> ToolResult(<<"{\"totalResults\":", "0", "}">>)
    [] mode = "throwsInside"  ->
         ToolResult(<<"Error", " searching Flutter resources: ", "TypeError">>)
    [] mode = "throwsOutside" -> Throws(<<"TypeError">>)

\* analyzeWidget makes no upstream request
analyzeWidget(mode) ==
  CASE mode \in {"ok", "network"} -> ToolResult(<<"{\"metrics\":", "{}", "}">>)
    [] mode = "throwsInside"      ->
         ToolResult(<<"Error", " analyzing widget: ", "TypeError">>)
    [] mode = "throwsOutside"     -> Throws(<<"TypeError">>)

\* unifiedToolHandlers[name](args) for a name the object inherits
InheritedCall(name) ==
  CASE name = "toString"    -> PlainValue(<<"[object Object]">>)
    [] name = "constructor" -> PlainValue(<<"{}">>)
    [] name = "__proto__"   ->
         Throws(<<"unifiedToolHandlers[name]", " is not a function">>)

\* the try block of the handler
Dispatch(name, mode) ==
  IF name \in UnifiedToolNames THEN flutterSearch(mode)
  ELSE IF name \in InheritedFunctions \cup InheritedObjects THEN InheritedCall(name)
  ELSE IF name \in LegacyToolNames THEN analyzeWidget(mode)
  ELSE Throws(<<"Unknown tool", ": ", name>>)

\* catch (error): text: `Error: ${error.message}`
CallToolRequest(name, mode) ==
  LET r == Dispatch(name, mode) IN
  IF r.kind = "throw" THEN ToolResult(<<"Error", ": ">> \o r.text) ELSE r

\* the server handles a request and answers it
HandleRequest(name, mode) ==
  /\ server.alive
  /\ server.handled < MaxRequests
  /\ server' = [server EXCEPT !.handled = @ + 1, !.name = name, !.mode = mode,
                  !.response = CallToolRequest(name, mode)]

InitServer ==
  server = [alive |-> TRUE, handled |-> 0, name |-> "", mode |-> "",
            response |-> NoResponse]

-----------------------------------------------------------------------------
(* Specifications                                                          *)

Init ==
  InitCache /\ InitBreaker /\ InitRetry /\ InitProtect /\ InitTruncate /\ InitFlights
  /\ InitServer /\ InitHealth /\ InitBackoff

\* the budgets that keep the counters finite
MayWrite == meta.total_writes < CleanupEvery - 1 + MaxWrites

MayRead(n) == meta.total_hits + meta.total_misses < n

\* what a step of the cache, of the breaker, of the retry handler leaves alone
CacheOnly == UNCHANGED <<breakerVars, retryVars, protectVars, toolVars>>

BreakerOnly == UNCHANGED <<cacheVars, retryVars, protectVars, toolVars>>

RetryOnly == UNCHANGED <<cacheVars, breakerVars, protectVars, toolVars>>

NextCache ==
  \/ \E r \in CoreRequests, value \in CoreValues :
       MayWrite /\ Set(r[1], r[2], value) /\ CacheOnly
  \/ \E r \in CoreRequests : MayRead(MaxReads) /\ Get(r[1], r[2]) /\ CacheOnly
  \/ \E r \in CoreRequests, hasParams \in BOOLEAN :
       Invalidate(r[1], hasParams, r[2]) /\ CacheOnly
  \/ Restart /\ CacheOnly
  \/ now < MaxTime /\ Tick /\ CacheOnly

SpecCache == Init /\ [][NextCache]_vars

NextCacheWide ==
  \/ \E type \in Categories, params \in Params, value \in Values :
       MayWrite /\ Set(type, params, value) /\ CacheOnly
  \/ \E type \in Categories, params \in Params :
       MayRead(WideMaxReads) /\ Get(type, params) /\ CacheOnly
  \/ \E type \in Categories, hasParams \in BOOLEAN, params \in Params :
       Invalidate(type, hasParams, params) /\ CacheOnly
  \/ Restart /\ CacheOnly
  \/ now < WideMaxTime /\ Tick /\ CacheOnly

SpecCacheWide == Init /\ [][NextCacheWide]_vars

\* one process, small values only: sets of up to TwoWrites pairs, so that a
\* call of invalidate finds rows besides the ones it is to delete
NextInvalidate ==
  \/ \E r \in CoreRequests :
       /\ meta.total_writes < CleanupEvery - 1 + TwoWrites
       /\ Set(r[1], r[2], JsVersion) /\ CacheOnly
  \/ \E r \in CoreRequests : MayRead(OneRead) /\ Get(r[1], r[2]) /\ CacheOnly
  \/ \E r \in CoreRequests, hasParams \in BOOLEAN :
       Invalidate(r[1], hasParams, r[2]) /\ CacheOnly
  \/ now < MaxTime /\ Tick /\ CacheOnly

SpecInvalidate == Init /\ [][NextInvalidate]_vars

\* SpecInvalidate with sets of values that cannot be serialised
Offered == {JsVersion, JsCircular, JsUndefined}

NextSetFailure ==
  \/ \E r \in CoreRequests, value \in Offered :
       /\ meta.total_writes < CleanupEvery - 1 + TwoWrites
       /\ Set(r[1], r[2], value) /\ CacheOnly
  \/ \E r \in CoreRequests : MayRead(OneRead) /\ Get(r[1], r[2]) /\ CacheOnly
  \/ \E r \in CoreRequests, hasParams \in BOOLEAN :
       Invalidate(r[1], hasParams, r[2]) /\ CacheOnly
  \/ now < MaxTime /\ Tick /\ CacheOnly

SpecSetFailure == Init /\ [][NextSetFailure]_vars

\* SpecInvalidate with sets of falsy values, and gets of them
Stored == {JsNull, JsZero, JsVersion}

NextAccounting ==
  \/ \E r \in CoreRequests, value \in Stored :
       /\ meta.total_writes < CleanupEvery - 1 + TwoWrites
       /\ Set(r[1], r[2], value) /\ CacheOnly
  \/ \E r \in CoreRequests : MayRead(WideMaxReads) /\ Get(r[1], r[2]) /\ CacheOnly
  \/ now < MaxTime /\ Tick /\ CacheOnly

SpecAccounting == Init /\ [][NextAccounting]_vars

NextBreaker ==
  \/ \E c \in Callers, hasFallback \in BOOLEAN : Arrive(c, hasFallback) /\ BreakerOnly
  \/ \E c \in Callers : Succeed(c) /\ BreakerOnly
  \/ \E c \in Callers : Fail(c) /\ BreakerOnly
  \/ clock < MaxClockSteps * ClockStep /\ ClockTick /\ BreakerOnly

SpecBreaker == Init /\ [][NextBreaker]_vars

\* the breaker with a dependency that recovers for good.  Time passes, fn
\* settles, and callers keep calling: each of these happens if it stays
\* possible.
RecoveryFrame ==
  UNCHANGED <<cacheVars, retryVars, protectVars, trunc, flights, server, backoff>>

NextRecovery ==
  \/ \E c \in 1..RecoveryCallers, hasFallback \in BOOLEAN :
       Arrive(c, hasFallback) /\ UNCHANGED healthy /\ RecoveryFrame
  \/ \E c \in 1..RecoveryCallers : Succeed(c) /\ UNCHANGED healthy /\ RecoveryFrame
  \/ \E c \in 1..RecoveryCallers :
       ~healthy /\ Fail(c) /\ UNCHANGED healthy /\ RecoveryFrame
  \/ ClockAdvance /\ UNCHANGED healthy /\ RecoveryFrame
  \/ Recover /\ RecoveryFrame

SpecRecovery ==
  /\ Init /\ [][NextRecovery]_vars
  /\ WF_breakerVars(ClockAdvance)
  /\ WF_breakerVars(\E c \in 1..RecoveryCallers : Succeed(c))
  /\ WF_breakerVars(\E c \in 1..RecoveryCallers, hasFallback \in BOOLEAN :
                      Admitted(c, hasFallback))

NextRetry ==
  \/ Execute /\ RetryOnly
  \/ Loop /\ RetryOnly
  \/ \E value \in Returns : FnResolves(value) /\ RetryOnly
  \/ \E error \in Errors, random \in Randoms : FnRejects(error, random) /\ RetryOnly
  \/ Wake /\ RetryOnly

SpecRetry == Init /\ [][NextRetry]_vars

\* what fn throws in SpecProtect
TransientErrors == {"NetworkError"}

\* a step of the retry handler or of the clock while a protected call runs
ProtectFrame == UNCHANGED <<cacheVars, protectVars, toolVars>>

NextProtect ==
  \/ \E hasFallback \in BOOLEAN : Protect(hasFallback) /\ UNCHANGED <<cacheVars, toolVars>>
  \/ Loop /\ ProtectFrame /\ UNCHANGED breakerVars
  \/ \E value \in Returns : FnResolves(value) /\ ProtectFrame /\ UNCHANGED breakerVars
  \/ \E error \in TransientErrors : FnRejects(error, 0) /\ ProtectFrame /\ UNCHANGED breakerVars
  \/ Wake /\ ProtectFrame /\ UNCHANGED breakerVars
  \/ OpResolves /\ UNCHANGED <<cacheVars, toolVars>>
  \/ OpRejects /\ UNCHANGED <<cacheVars, toolVars>>
  \/ TimerFires /\ UNCHANGED <<cacheVars, toolVars>>
  \/ clock < MaxClockSteps * ClockStep /\ ClockTick /\ ProtectFrame /\ UNCHANGED retryVars

SpecProtect == Init /\ [][NextProtect]_vars

\* SpecProtect with few calls, the first of them made when failed calls for
\* other services have filled the error log up to the last LoggedCalls
\* entries or further
NextErrorLog ==
  \/ OtherServiceRejects /\ UNCHANGED <<cacheVars, breakerVars, retryVars, toolVars>>
  \/ \E hasFallback \in BOOLEAN :
       /\ Len(errorLog) + LoggedCalls >= maxErrorHistory
       /\ ProtectLogged(hasFallback) /\ UNCHANGED <<cacheVars, toolVars>>
  \/ Loop /\ ProtectFrame /\ UNCHANGED breakerVars
  \/ \E value \in Returns : FnResolves(value) /\ ProtectFrame /\ UNCHANGED breakerVars
  \/ \E error \in TransientErrors : FnRejects(error, 0) /\ ProtectFrame /\ UNCHANGED breakerVars
  \/ Wake /\ ProtectFrame /\ UNCHANGED breakerVars
  \/ OpResolves /\ UNCHANGED <<cacheVars, toolVars>>
  \/ OpRejects /\ UNCHANGED <<cacheVars, toolVars>>
  \/ TimerFires /\ UNCHANGED <<cacheVars, toolVars>>
  \/ clock < MaxClockSteps * ClockStep /\ ClockTick /\ ProtectFrame /\ UNCHANGED retryVars

SpecErrorLog == Init /\ [][NextErrorLog]_vars

NextBackoff ==
  \E opts \in RetryOptions, attempt \in 0..maxRetries, random \in Randoms :
    /\ CalculateDelay(opts, attempt, random)
    /\ UNCHANGED <<cacheVars, breakerVars, retryVars, protectVars, trunc, flights, server,
                   healthy>>

SpecBackoff == Init /\ [][NextBackoff]_vars

TruncateOnly ==
  UNCHANGED <<cacheVars, breakerVars, retryVars, protectVars, flights, server, healthy,
              backoff>>

NextTruncate ==
  \/ \E content \in Contents, limit \in Limits, w \in TokenWidths :
       SmartTruncate(content, limit, w) /\ TruncateOnly
  \/ TruncateAgain /\ TruncateOnly

SpecTruncate == Init /\ [][NextTruncate]_vars

ReadThroughOnly ==
  UNCHANGED <<breakerVars, retryVars, protectVars, trunc, server, healthy, backoff>>

NextReadThrough ==
  \/ \E c \in Workers, r \in CoreRequests : FlightCall(c, r[1], r[2]) /\ ReadThroughOnly
  \/ \E c \in Workers, result \in Produced : FlightProduce(c, result) /\ ReadThroughOnly
  \/ now < MaxTime /\ Tick /\ UNCHANGED flights /\ ReadThroughOnly

SpecReadThrough == Init /\ [][NextReadThrough]_vars

ServerOnly ==
  UNCHANGED <<cacheVars, breakerVars, retryVars, protectVars, trunc, flights, healthy,
              backoff>>

NextServer ==
  \E name \in ToolNames, mode \in Modes : HandleRequest(name, mode) /\ ServerOnly

SpecServer == Init /\ [][NextServer]_vars

-----------------------------------------------------------------------------
(* Properties of the cache                                                 *)

Requested == <<hist.type, hist.params>>

RequestedKey == generateKey(hist.type, hist.params)

TtlTicks(type) == Ticks(TtlOf(type))

\* the tick is before the expiry of the pair's last set
BeforeExpiry(r) == now < lastSet[r].at + TtlTicks(r[1])

\* Within one process, a get of a pair set earlier, not invalidated nor
\* replaced since, returns the value set, before its expiry.
RoundTrip ==
  hist.op = "get" =>
    LET e == lastSet[Requested] IN
    e.live /\ ~e.restarted /\ BeforeExpiry(Requested) => hist.result = e.v

\* C1: after set(category, params, v), a get(category, params) before the
\* TTL elapses, with no invalidate or replacing set in between, returns v;
\* a get for a (category, params) that was never set returns null.
C1_SetThenGet ==
  /\ RoundTrip
  /\ hist.op = "get" /\ ~lastSet[Requested].ever => hist.result = JsNull

\* C2: get never returns a value whose database row has expires_at <= now,
\* be it served from the database or from the memory copy.
C2_NoExpiredReturned ==
  hist.op = "get" /\ hist.src # "miss" /\ RequestedKey \in DOMAIN db
    => db[RequestedKey].expires_at > now

\* the same with a row whose expiry lies strictly in the past
NoLongExpiredReturned ==
  hist.op = "get" /\ hist.src # "miss" /\ RequestedKey \in DOMAIN db
    => db[RequestedKey].expires_at >= now

\* the other insertion orders of the requested params
Orderings(params) == {q \in Params : SameMapping(q, params)}

\* C3: generateKey gives the same key for the same key/value pairs in any
\* insertion order, so a value set with one order is returned by a get
\* with another.
C3_OrderIndependentKey ==
  hist.op = "get" =>
    /\ \A q \in Orderings(hist.params) : generateKey(hist.type, q) = RequestedKey
    /\ LET set == {q \in Orderings(hist.params) :
                     /\ lastSet[<<hist.type, q>>].live
                     /\ ~lastSet[<<hist.type, q>>].restarted
                     /\ BeforeExpiry(<<hist.type, q>>)}
       IN set # {} => hist.result \in {lastSet[<<hist.type, q>>].v : q \in set}

\* the two pairs differ in category or in some parameter
Differ(r, s) == r[1] # s[1] \/ ~SameMapping(r[2], s[2])

\* C4: pairs that differ in category or in a parameter value have
\* different keys, so a get for one never returns what was set for another.
C4_DistinctKeys ==
  hist.op = "get" =>
    /\ \A r \in Requests : Differ(r, Requested) => KeyOf[r] # RequestedKey
    /\ hist.src # "miss" =>
         \E r \in Requests : ~Differ(r, Requested) /\ lastSet[r].ever

\* C5: the durable tier survives a restart: after set(category, params, v)
\* the manager can be constructed again on the same store, and a get of the
\* pair before expiry then returns v.
C5_SurvivesRestart ==
  /\ proc # "crashed"
  /\ hist.op = "get" =>
       LET e == lastSet[Requested] IN
       (e.live \/ e.evicted) /\ e.restarted /\ BeforeExpiry(Requested) => hist.result = e.v

\* a row that cleanup left in the table is returned after a restart
SurvivesRestartUnlessEvicted ==
  hist.op = "get" =>
    LET e == lastSet[Requested] IN
    e.live /\ e.restarted /\ BeforeExpiry(Requested) => hist.result = e.v

\* the step is a set that ran cleanup(): its write was a CleanupEvery-th one
CleanupStep ==
  stats'.writes = stats.writes + 1 /\ stats'.writes % CleanupEvery = 0

\* C16: when cleanup has run it has returned, the stored sizes sum to at
\* most maxSize, and every unexpired row it removed was accessed no later
\* than every row it left.
C16_EvictsToLowWater ==
  [][CleanupStep =>
       /\ proc' = "up"
       /\ TotalSize(db') <= maxSize
       /\ \A k \in (DOMAIN db) \ (DOMAIN db'), s \in DOMAIN db' :
            db[k].expires_at >= now => db[k].last_accessed <= db'[s].last_accessed]_vars

\* C17: cleanup terminates: no call of it runs forever.
C17_CleanupTerminates == proc # "hung"

\* C18: the rows stored never sum to more than maxSize once a set has
\* returned.
C18_Backpressure == proc = "up" => TotalSize(db) <= maxSize

\* C19: invalidate(type, params) removes the key of the pair from the
\* memory tier and from the table and nothing else: every other entry and
\* row is as it was; a get of the pair that follows at once returns null.
C19_InvalidateOne ==
  [][/\ hist'.op = "invalidate" /\ hist'.params # NoParams =>
          LET key == generateKey(hist'.type, hist'.params) IN
          /\ DOMAIN db' = (DOMAIN db) \ {key}
          /\ DOMAIN memoryCache' = (DOMAIN memoryCache) \ {key}
          /\ \A k \in DOMAIN db' : db'[k] = db[k]
          /\ \A k \in DOMAIN memoryCache' : memoryCache'[k] = memoryCache[k]
     /\ hist.op = "invalidate" /\ hist.params # NoParams /\ hist'.op = "get"
          /\ hist'.type = hist.type /\ hist'.params = hist.params =>
          hist'.result = JsNull]_vars

\* invalidate(type, params) has just deleted a pair that had been set while
\* another pair has its row and its memory copy
C19_Witness ==
  /\ hist.op = "invalidate"
  /\ hist.params # NoParams
  /\ lastSet[Requested] = Dead
  /\ \E s \in Requests :
       /\ lastSet[s].live
       /\ KeyOf[s] \in DOMAIN db
       /\ KeyOf[s] \in DOMAIN memoryCache

\* C20: invalidate(type) empties the memory tier and leaves no row for any
\* params set under that type, so that a get of such a pair returns null;
\* rows of other types are as they were and a get of an unexpired pair of
\* another type still returns its value.
C20_InvalidateCategory ==
  [][/\ hist'.op = "invalidate" /\ hist'.params = NoParams =>
          /\ memoryCache' = EmptyMap
          /\ \A r \in Requests :
               r[1] = hist'.type /\ lastSet[r].ever => KeyOf[r] \notin DOMAIN db'
          /\ \A k \in DOMAIN db :
               db[k].type # hist'.type => k \in DOMAIN db' /\ db'[k] = db[k]
     /\ hist.op = "invalidate" /\ hist.params = NoParams /\ hist'.op = "get" =>
          LET r == <<hist'.type, hist'.params>> IN
          /\ r[1] = hist.type /\ lastSet[r].ever => hist'.result = JsNull
          /\ r[1] # hist.type /\ lastSet[r].live /\ BeforeExpiry(r) =>
               hist'.result = lastSet[r].v]_vars

-----------------------------------------------------------------------------
(* Properties of the circuit breaker                                       *)

\* C6: from CLOSED with no failures counted, the breaker opens at the
\* failure that makes failureThreshold consecutive failed calls and not at
\* an earlier one; a call that arrives while the breaker is OPEN and
\* now < nextAttemptTime gets the fallback or the circuit-open error, and
\* fn is not called.
C6_OpensAtThreshold ==
  /\ breaker.state = "CLOSED" => streak < failureThreshold
  /\ event.kind = "failed" /\ event.preState = "CLOSED" =>
       breaker.state = (IF streak = failureThreshold THEN "OPEN" ELSE "CLOSED")
  /\ event.kind = "succeeded" /\ event.preState = "CLOSED" => breaker.state = "CLOSED"
  /\ event.kind = "arrive" /\ event.preState = "OPEN"
       /\ clock < ToNumber(breaker.nextAttemptTime) =>
         /\ ~event.invoked
         /\ event.outcome \in {"fallback", "circuit_open"}
         /\ calls[event.caller].status = "idle"
         /\ breaker.state = "OPEN"

\* the breaker has just opened at the fifth failure in a row and a call
\* arriving before nextAttemptTime was turned away
C6_Witness ==
  /\ event.kind = "arrive"
  /\ event.preState = "OPEN"
  /\ ~event.invoked
  /\ streak = failureThreshold
  /\ breaker.requestCount = failureThreshold
  /\ clock < ToNumber(breaker.nextAttemptTime)

\* C7: while the call that moved the breaker to HALF_OPEN is pending, no
\* other call gets fn called.
C7_SingleTrial ==
  event.kind = "arrive" /\ event.invoked =>
    \A c \in Callers \ {event.caller} : ~(calls[c].status = "running" /\ calls[c].trial)

\* C8: when the trial call succeeds the breaker is CLOSED with no failures
\* counted.
C8_TrialSuccessCloses ==
  event.kind = "succeeded" /\ event.trial =>
    breaker.state = "CLOSED" /\ breaker.failures = 0

\* C9: when the trial call fails the breaker is OPEN with
\* nextAttemptTime = time of the failure + resetTimeout.
C9_TrialFailureReopens ==
  event.kind = "failed" /\ event.trial =>
    /\ breaker.state = "OPEN"
    /\ breaker.nextAttemptTime = JsNumber(clock + resetTimeout)

\* C13: a step in which a call ends with the fallback's result leaves
\* failures, lastFailureTime and state of the breaker as they were.
C13_FallbackNotRecorded ==
  [][event'.outcome = "fallback" /\ event' # event =>
       /\ breaker'.failures = breaker.failures
       /\ breaker'.lastFailureTime = breaker.lastFailureTime
       /\ breaker'.state = breaker.state]_vars

-----------------------------------------------------------------------------
(* Properties of the retry handler                                         *)

Failures(log) == {i \in 1..Len(log) : ~log[i].ok}

\* C10: execute resolves only with the value of the first call of fn that
\* succeeds, after k failed calls (k <= maxRetries) and k + 1 calls in all;
\* it throws only after maxRetries + 1 calls that all failed; until then
\* every failed call is followed by another one.
C10_RetryCount ==
  LET log == retry.fnLog
      k   == Cardinality(Failures(log))
  IN
  /\ retry.pc = "resolved" =>
       /\ k = Len(log) - 1
       /\ k <= maxRetries
       /\ log[Len(log)].ok
       /\ retry.result = log[Len(log)].v
       /\ retry.invocations = k + 1
  /\ retry.pc = "rejected" =>
       /\ k = Len(log)
       /\ retry.invocations = maxRetries + 1
       /\ k = maxRetries + 1
       /\ retry.error = FailedAfter(retry.lastError)
  /\ retry.pc \in {"loop", "awaiting", "sleeping"} =>
       /\ k = Len(log)
       /\ k <= maxRetries + 1
       /\ retry.invocations <= maxRetries + 1

\* fn failed maxRetries times and succeeded at the last attempt
C10_Witness ==
  /\ retry.pc = "resolved"
  /\ retry.invocations = maxRetries + 1
  /\ Len(retry.delays) = maxRetries

\* fn failed at every attempt
RetryThrowsReached ==
  /\ retry.pc = "rejected"
  /\ retry.invocations = maxRetries + 1

\* C11: a call of fn that fails with a ValidationError is the last one of
\* the execution: no delay is slept after it and fn is not called again.
C11_ValidationFailsFast ==
  retry.lastError = "ValidationError" => retry.pc \notin {"sleeping", "awaiting"}

-----------------------------------------------------------------------------
(* Properties of executeWithProtection                                     *)

\* C12: a caller that supplied a fallback never receives an error: with
\* the breaker open, with the retries exhausted and when the timer fires
\* first it receives the fallback's result.
C12_FallbackReplacesError ==
  guard.pc = "done" /\ guard.fallback => guard.outcome.kind # "error"

C15_LastErrorPropagates ==
  guard.pc = "done" /\ guard.first = "op" /\ guard.outcome.kind = "error" =>
    guard.outcome = UnderlyingError(retry.lastError)

\* neither tier has an entry under the key
Absent(key) == key \notin DOMAIN memoryCache /\ key \notin DOMAIN db

\* C28: a set of a value that cannot be serialised throws and leaves both
\* tiers and the write counters as they were; a get of an absent key returns
\* null and an invalidate of an absent key changes nothing, and neither
\* throws.
C28_FailuresLeaveNoTrace ==
  [][/\ hist'.op = "set" =>
          /\ hist'.src = "throw"
          /\ memoryCache' = memoryCache /\ db' = db
          /\ stats' = stats /\ meta' = meta
          /\ Absent(generateKey(hist'.type, hist'.params)) =>
               NodeCacheGet(memoryCache', generateKey(hist'.type, hist'.params), now)
                 = JsUndefined
     /\ hist'.op = "get" /\ Absent(generateKey(hist'.type, hist'.params)) =>
          hist'.result = JsNull /\ hist'.src = "miss" /\ proc' = "up"
     /\ hist'.op = "invalidate" /\ hist'.params # NoParams
        /\ Absent(generateKey(hist'.type, hist'.params)) =>
          memoryCache' = memoryCache /\ db' = db /\ proc' = "up"]_vars

\* a set has thrown while another pair is cached
C28_Witness ==
  /\ hist.op = "set" /\ hist.src = "throw"
  /\ DOMAIN db # {} /\ DOMAIN memoryCache # {}
  /\ Absent(generateKey(hist.type, hist.params))

\* C29: a get that returns a stored value, from the memory tier or from the
\* table, adds one to the hit_count of the key's row and sets its
\* last_accessed to the time of the get.
C29_HitsAreCounted ==
  [][hist'.op = "get" /\ hist'.src \in {"memory", "database"} =>
       LET key == generateKey(hist'.type, hist'.params) IN
       key \in DOMAIN db =>
         /\ key \in DOMAIN db'
         /\ db'[key].hit_count = db[key].hit_count + 1
         /\ db'[key].last_accessed = now]_vars

\* fn can still be called: the budget of calls is not used up
MayCall == breaker.requestCount + Cardinality(Pending) < MaxCalls

\* C30: once the dependency has recovered, an open breaker that keeps being
\* called while time passes is eventually CLOSED, and CLOSED from then on.
C30_Recovery ==
  (healthy /\ breaker.state = "OPEN" /\ MayCall) ~> [](breaker.state = "CLOSED")

\* the trial call after the recovery has succeeded and closed the breaker
C30_Witness ==
  /\ healthy /\ breaker.state = "CLOSED"
  /\ event.kind = "succeeded" /\ event.trial /\ event.preState = "HALF_OPEN"
  /\ ToNumber(breaker.nextAttemptTime) > 0

-----------------------------------------------------------------------------
(* Properties of the truncator                                             *)

\* the cost of a result: the tokens of a string, of the serialisation otherwise
cost(v, w) == countTokens(IF v.t = "string" THEN v.s ELSE JSONtext(v), w)

\* equality of payloads, the order of an object's properties forgotten
RECURSIVE SameValue(_, _)
SameValue(a, b) ==
  IF a.t # b.t THEN FALSE
  ELSE CASE a.t = "object" ->
              /\ Len(a.props) = Len(b.props)
              /\ \A i \in DOMAIN a.props : \E j \in DOMAIN b.props :
                   /\ a.props[i][1] = b.props[j][1]
                   /\ SameValue(a.props[i][2], b.props[j][2])
         [] a.t = "array" ->
              /\ Len(a.items) = Len(b.items)
              /\ \A i \in DOMAIN a.items : SameValue(a.items[i], b.items[i])
         [] OTHER -> a = b

Truncated == trunc.pc # "idle"

\* C21: whatever smartTruncate returns costs at most the limit it was given.
C21_TruncationBound ==
  Truncated /\ trunc.once.kind = "return" =>
    cost(trunc.once.v, trunc.width) <= trunc.limit

\* C22: a payload whose cost is within the limit is returned as it is.
C22_IdentityWhenFits ==
  Truncated /\ cost(trunc.content, trunc.width) <= trunc.limit =>
    /\ trunc.once.kind = "return"
    /\ SameValue(trunc.once.v, trunc.content)

\* C23: truncating the result of a truncation once more, under the same
\* limit, returns it unchanged.
C23_Idempotent ==
  trunc.pc = "twice" =>
    /\ trunc.twice.kind = "return"
    /\ SameValue(trunc.twice.v, trunc.once.v)

\* C24: smartTruncate returns for every payload and every limit; it never
\* throws.
C24_NeverThrows ==
  Truncated => trunc.once.kind = "return"

-----------------------------------------------------------------------------
(* Properties of withCache                                                 *)

\* workers c and d missed on the same key before either of them wrote
Concurrent(c, d) ==
  c # d /\ (d \in flights[c].rivals \/ c \in flights[d].rivals)

\* the step in which fn resolves for worker c and its call returns
Completes(c) == flights[c].pc = "producing" /\ flights'[c].pc = "done"

\* both tiers hold value v under key k
Holds(mc, d, k, v) ==
  /\ NodeCacheGet(mc, k, now) = v
  /\ k \in DOMAIN d /\ d[k].value = JSONstringify(v)

\* the later of two concurrent calls has invoked fn itself, as the earlier
\* one has; its result is in both tiers when it returns
LaterOfTwo(c, d) ==
  /\ flights'[c].invocations = 1
  /\ flights[d].invocations = 1
  /\ Holds(memoryCache', db', FlightKey(flights[c]), flights'[c].result)

\* C25: of two workers that miss on the same key before either writes, each
\* invokes fn itself, each writes its result, and when both have returned the
\* cache holds the result written last.
C25_NoSingleFlight ==
  [][\A c, d \in Workers :
       Concurrent(c, d) /\ Completes(c) =>
         /\ flights'[c].wrote
         /\ flights[d].pc = "done" => flights[d].wrote /\ LaterOfTwo(c, d)]_vars

\* the same for the results withCache stores, the truthy ones
NoSingleFlightOfStoredResults ==
  [][\A c, d \in Workers :
       /\ Concurrent(c, d) /\ Completes(c)
       /\ Truthy(flights'[c].result)
       /\ flights[d].pc = "done" /\ Truthy(flights[d].result)
       => flights'[c].wrote /\ flights[d].wrote /\ LaterOfTwo(c, d)]_vars

\* two workers missed on one key, both invoked fn, both wrote, and the cache
\* holds the result of the second to return, which differs from the first's
TwoProducersReached ==
  \E c, d \in Workers :
    /\ Concurrent(c, d)
    /\ flights[c].pc = "done" /\ flights[d].pc = "done"
    /\ flights[c].wrote /\ flights[d].wrote
    /\ flights[c].result # flights[d].result
    /\ Holds(memoryCache, db, FlightKey(flights[c]), flights[c].result)

\* the call began before the expiry of a set of its pair that nothing replaced
FreshlyStored(f) ==
  f.prior.live /\ f.calledAt < f.prior.at + TtlTicks(f.type)

\* C26: a call that hits returns the stored value and does not invoke fn; a
\* call that misses invokes fn once, stores the result until the category's
\* TTL has passed and returns it; a call made before the expiry of what an
\* earlier call with the same arguments stored hits, and returns that value.
C26_ReadThrough ==
  \A c \in Workers :
    LET f == flights[c] IN
    f.pc = "done" =>
      /\ f.hit => f.invocations = 0
      /\ ~f.hit =>
           /\ f.invocations = 1
           /\ f.wrote
           /\ f.expiresAt >= f.calledAt + TtlTicks(f.type)
      /\ FreshlyStored(f) => f.hit /\ f.result = f.prior.v

\* the same for truthy results; the write happens when fn resolves, so the
\* row expires one TTL after that
ReadThroughOfStoredResults ==
  \A c \in Workers :
    LET f == flights[c] IN
    f.pc = "done" =>
      /\ f.hit => f.invocations = 0
      /\ ~f.hit /\ Truthy(f.result) =>
           f.invocations = 1 /\ f.wrote /\ f.expiresAt >= f.calledAt + TtlTicks(f.type)
      /\ FreshlyStored(f) => f.hit /\ f.result = f.prior.v

-----------------------------------------------------------------------------
(* Properties of the tool server                                           *)

Failed == server.name \notin UnifiedToolNames \cup LegacyToolNames \/ server.mode # "ok"

BeginsWithError(text) == Len(text) > 0 /\ text[1] = "Error"

Contains(text, fragment) == \E i \in DOMAIN text : text[i] = fragment

\* C27: the server stays up, and a request that names no tool, whose handler
\* throws or whose upstream request fails is answered with a tool result
\* whose text begins with 'Error', and contains 'Unknown tool' if the name is
\* that of no tool.
C27_StructuredError ==
  /\ server.alive
  /\ server.handled > 0 /\ Failed =>
       /\ server.response.kind = "result"
       /\ BeginsWithError(server.response.text)
       /\ server.name \notin UnifiedToolNames \cup LegacyToolNames =>
            Contains(server.response.text, "Unknown tool")

-----------------------------------------------------------------------------
(* Properties of the constructor                                           *)

\* the step constructs the manager: a new, empty memory tier at the same
\* time, and no call of get, set or invalidate
ConstructorStep == hist' = Idle /\ now' = now /\ memoryCache' = EmptyMap

\* C31: constructing the manager on a table that holds expired rows
\* succeeds: the startup cleanup removes every expired row and counts them
\* as evictions, in this.stats and in cache_metadata, and the instance is
\* usable.
C31_StartupCleanup ==
  [][ConstructorStep /\ Expired(db, now) # {} =>
       /\ proc' = "up"
       /\ Expired(db', now) = {}
       /\ stats'.evictions = Cardinality(Expired(db, now))
       /\ meta'.total_evictions = meta.total_evictions + Cardinality(Expired(db, now))]_vars

-----------------------------------------------------------------------------
(* Properties of the hit and miss counters                                 *)

\* the step is a call of get that has returned
GetStep == hist'.op = "get"

\* C32: every get records exactly one hit or exactly one miss, in this.stats
\* and in cache_metadata, and it returns empty (null) if and only if it
\* recorded a miss, whatever value is stored, null and 0 included.
C32_HitOrMiss ==
  [][GetStep =>
       /\ stats'.hits + stats'.misses = stats.hits + stats.misses + 1
       /\ meta'.total_hits + meta'.total_misses
            = meta.total_hits + meta.total_misses + 1
       /\ stats'.hits >= stats.hits /\ stats'.misses >= stats.misses
       /\ meta'.total_hits - meta.total_hits = stats'.hits - stats.hits
       /\ (hist'.result = JsNull <=> stats'.misses = stats.misses + 1)]_vars

\* every get records exactly one hit or one miss, in both totals alike, and
\* a get that records a miss returns null
EveryGetCountsOnce ==
  [][GetStep =>
       /\ stats'.hits + stats'.misses = stats.hits + stats.misses + 1
       /\ meta'.total_hits + meta'.total_misses
            = meta.total_hits + meta.total_misses + 1
       /\ stats'.hits >= stats.hits /\ stats'.misses >= stats.misses
       /\ meta'.total_hits - meta.total_hits = stats'.hits - stats.hits
       /\ (stats'.misses = stats.misses + 1 => hist'.result = JsNull)
       /\ (hist'.result = JsNull /\ stats'.hits = stats.hits + 1 =>
             hist'.src = "database"
             /\ db[generateKey(hist'.type, hist'.params)].value = "null")]_vars

-----------------------------------------------------------------------------
(* Properties of the open breaker                                          *)

\* the step leaves OPEN only by a call that arrives at or after
\* nextAttemptTime
LeavesOpenByTrial ==
  breaker.state = "OPEN" /\ breaker'.state # "OPEN" =>
    /\ event'.kind = "arrive" /\ event'.invoked
    /\ clock >= ToNumber(breaker.nextAttemptTime)

\* C33: whenever the breaker is OPEN, nextAttemptTime is a number, the time
\* of the failure that moved the breaker to OPEN plus resetTimeout, and the
\* breaker stays OPEN until a call arrives at a time >= nextAttemptTime.
C33_OpenUntilNextAttempt ==
  [][/\ breaker'.state = "OPEN" =>
          /\ breaker'.nextAttemptTime.t = "number"
          /\ breaker.state # "OPEN" =>
               /\ event'.kind = "failed"
               /\ breaker'.nextAttemptTime = JsNumber(clock + resetTimeout)
          /\ breaker.state = "OPEN" =>
               breaker'.nextAttemptTime = breaker.nextAttemptTime
     /\ LeavesOpenByTrial]_vars

\* whenever the breaker is OPEN, nextAttemptTime is the time of the last
\* failure that found the threshold reached plus resetTimeout, whether that
\* failure opened the breaker or found it open already
OpenUntilLastFailurePlusTimeout ==
  [][/\ breaker'.state = "OPEN" =>
          /\ breaker'.nextAttemptTime.t = "number"
          /\ IF event'.kind = "failed" /\ ThresholdReached(breaker'.failures)
               THEN breaker'.nextAttemptTime = JsNumber(clock + resetTimeout)
               ELSE breaker'.nextAttemptTime = breaker.nextAttemptTime
     /\ LeavesOpenByTrial]_vars

-----------------------------------------------------------------------------
(* Properties of the nesting of retry, breaker and timeout                 *)

\* C34: one call of executeWithProtection adds at most one to the breaker's
\* failures and exactly one to its requestCount once its operation has been
\* attempted and has settled, however many attempts the retry handler made;
\* a call the open breaker rejects changes no counter.
C34_RetryInsideBreaker ==
  guard.pc # "idle" =>
    IF ~guard.admitted
      THEN Counters(breaker) = guard.before
      ELSE IF guard.op = "pending"
        THEN Counters(breaker) = guard.before
        ELSE /\ breaker.requestCount = guard.before.requestCount + 1
             /\ breaker.failures <= guard.before.failures + 1
             /\ breaker.failures + breaker.successCount
                  <= guard.before.failures + guard.before.successCount + 1
             /\ retry.invocations >= 1

\* a call whose every attempt failed has counted as one failure and one
\* request, after an earlier call
C34_Witness ==
  /\ guard.admitted /\ guard.op = "settled"
  /\ retry.pc = "rejected" /\ retry.invocations = maxRetries + 1
  /\ guard.before.requestCount > 0
  /\ breaker.requestCount = guard.before.requestCount + 1
  /\ breaker.failures = guard.before.failures + 1

\* the timer fires in this step
TimeoutStep == guard.timer = "armed" /\ guard'.timer = "fired"

\* the wrapped call settles in this step, after its caller received the
\* TimeoutError
LateSettlement ==
  /\ guard.pc = "done" /\ guard.first = "timer"
  /\ guard.op = "pending" /\ guard'.op = "settled"

\* C35: the timeout leaves the breaker and the retry chain as they are; the
\* chain goes on after the caller has received the TimeoutError, and when it
\* ends its success or failure is applied to the breaker (onSuccess or
\* onFailure) while the caller's outcome stays the TimeoutError.
C35_AbandonedByCallerOnly ==
  [][/\ TimeoutStep => breaker' = breaker /\ retry' = retry /\ calls' = calls
     /\ LateSettlement =>
          /\ guard'.outcome = TimeoutError
          /\ errorLog' = errorLog
          /\ retry.pc \in {"resolved", "rejected"}
          /\ breaker' = IF retry.pc = "resolved" THEN onSuccess(breaker)
                        ELSE onFailure(breaker, clock)
          /\ breaker'.requestCount = guard.before.requestCount + 1]_vars

\* the caller has its TimeoutError; the chain called fn again afterwards and
\* its success was counted by the breaker
C35_Witness ==
  /\ guard.order = <<"timer", "op">>
  /\ guard.outcome = TimeoutError
  /\ guard.opOutcome.kind = "value"
  /\ retry.invocations > guard.atTimeout.invocations
  /\ breaker.successCount = guard.atTimeout.breaker.successCount + 1
  /\ breaker.requestCount = guard.atTimeout.breaker.requestCount + 1

-----------------------------------------------------------------------------
(* Properties of the retry delay                                           *)

\* the option as configured: its value when given, the default otherwise
Configured(option, default) ==
  IF option = JsUndefined THEN default ELSE ToNumber(option)

\* d = min(initialDelay * factor^attempt, maxDelay) of the configuration
NominalDelay(opts, attempt) ==
  MathMin(Configured(opts.initialDelay, initialDelay)
            * MathPow(Configured(opts.factor, factor), attempt),
          Configured(opts.maxDelay, maxDelay))

\* jitter is enabled unless the options switch it off
JitterEnabled(opts) == opts.jitter # JsFalse

\* C36: the delay after failed attempt number `attempt` is floor(d * u) with
\* d = min(initialDelay * factor^attempt, maxDelay) and u in [0.5, 1.0] when
\* jitter is enabled, and exactly d when it is disabled; it is at most
\* maxDelay and at least floor(d / 2); with maxRetries = 2,
\* initialDelay = 100 and factor = 2 the two delays lie in [50, 100] and
\* [100, 200].
C36_RetryDelay ==
  backoff.pc = "done" =>
    LET opts == backoff.options
        d    == NominalDelay(opts, backoff.attempt)
    IN /\ IF JitterEnabled(opts)
            THEN backoff.delay = Jittered(d, backoff.random)
            ELSE backoff.delay = d
       /\ backoff.delay <= Configured(opts.maxDelay, maxDelay)
       /\ backoff.delay >= d \div 2
       /\ backoff.delay <= d
       /\ opts.maxRetries = JsNumber(2) /\ opts.initialDelay = JsNumber(100)
          /\ opts.factor = JsNumber(2) /\ opts.maxDelay = JsUndefined =>
            /\ backoff.attempt = 0 => backoff.delay >= 50 /\ backoff.delay <= 100
            /\ backoff.attempt = 1 => backoff.delay >= 100 /\ backoff.delay <= 200

\* with the fields the constructor has assigned, the delay is always the
\* jittered one: floor(d * u), between floor(d / 2) and d, at most maxDelay
DelayIsAlwaysJittered ==
  backoff.pc = "done" =>
    LET handler == RetryHandler(backoff.options)
        d == MathMin(ToNumber(handler.initialDelay)
                       * MathPow(ToNumber(handler.factor), backoff.attempt),
                     ToNumber(handler.maxDelay))
    IN /\ backoff.delay = Jittered(d, backoff.random)
       /\ backoff.delay >= d \div 2 /\ backoff.delay <= d
       /\ backoff.delay <= ToNumber(handler.maxDelay)
       /\ backoff.options.initialDelay # JsNumber(0) /\ JitterEnabled(backoff.options) =>
            d = NominalDelay(backoff.options, backoff.attempt)

-----------------------------------------------------------------------------
(* Properties of truncateObject                                            *)

\* 1 for a priority key, 3 for a deprioritized key, 2 for any other
KeyClass(key) ==
  IF Includes(priorityKeys, key) THEN 1
  ELSE IF Includes(deprioritizeKeys, key) THEN 3 ELSE 2

\* result and currentTokens after the first loop, after the second loop and
\* at the end of the call of truncateObject on the payload
AfterPriority ==
  AddPriorityFields(trunc.content, trunc.limit, trunc.width, 1, EmptyResult)

AfterOthers ==
  AddOtherFields(trunc.content, trunc.limit, trunc.width, 1, AfterPriority)

AtReturn ==
  AddDeprioritizedFields(trunc.content, trunc.limit, trunc.width, 1, AfterOthers)

\* the payload was an object and truncateObject has returned
ObjectTruncated == trunc.pc # "idle" /\ trunc.content.t = "object"

\* the fields of the result come in the order priority, other, deprioritized
InAllocationOrder(props) ==
  \A i, j \in DOMAIN props : i < j => KeyClass(props[i][1]) <= KeyClass(props[j][1])

\* the first deprioritized key the payload has is in the result
FirstDeprioritizedIncluded ==
  \E i \in DOMAIN deprioritizeKeys :
    /\ Property(trunc.content, deprioritizeKeys[i]) # Undefined
    /\ \A j \in 1..(i - 1) : Property(trunc.content, deprioritizeKeys[j]) = Undefined
    /\ \E k \in DOMAIN AtReturn.result : AtReturn.result[k][1] = deprioritizeKeys[i]

\* C37: truncateObject puts priority fields before other fields and those
\* before deprioritized fields; a deprioritized field is included only if at
\* least 90% of the limit is still unused when it is considered; a field
\* whose truncated form does not fit into what remains is skipped, so that
\* the running total of tokens used never exceeds the limit.
C37_PriorityAllocation ==
  ObjectTruncated =>
    /\ trunc.once = Returned(Obj(AtReturn.result))
    /\ InAllocationOrder(AtReturn.result)
    /\ FirstDeprioritizedIncluded =>
         10 * (trunc.limit - AfterOthers.currentTokens) >= 9 * trunc.limit
    /\ AfterPriority.currentTokens <= trunc.limit
    /\ AfterOthers.currentTokens <= trunc.limit
    /\ AtReturn.currentTokens <= trunc.limit

\* the fields are in allocation order; a deprioritized field is included
\* only if less than 90% of the limit is used when it is considered; the
\* running total starts at 2 and a field is added only if the total stays
\* within the limit
AllocationAsCoded ==
  ObjectTruncated =>
    /\ trunc.once = Returned(Obj(AtReturn.result))
    /\ InAllocationOrder(AtReturn.result)
    /\ FirstDeprioritizedIncluded => 10 * AfterOthers.currentTokens < 9 * trunc.limit
    /\ AfterPriority.currentTokens <= AfterOthers.currentTokens
    /\ AfterOthers.currentTokens <= AtReturn.currentTokens
    /\ AtReturn.currentTokens <= (IF trunc.limit > 2 THEN trunc.limit ELSE 2)
    /\ AtReturn.result # <<>> => AtReturn.currentTokens <= trunc.limit

-----------------------------------------------------------------------------
(* Properties of the error log                                             *)

\* the step ends a call of executeWithProtection: its caller has an outcome
CallEnds ==
  guard'.pc = "done" /\ (guard.pc = "racing" \/ guard'.n # guard.n)

\* the last maxErrorHistory entries of a sequence
MostRecent(s) ==
  IF Len(s) > maxErrorHistory THEN SubSeq(s, Len(s) - maxErrorHistory + 1, Len(s)) ELSE s

RECURSIVE SumOver(_, _)
SumOver(f, S) ==
  IF S = {} THEN 0
  ELSE LET x == CHOOSE y \in S : TRUE IN f[x] + SumOver(f, S \ {x})

\* C38: the error log never holds more than maxErrorHistory entries; a new
\* entry goes to the end and the oldest entry is dropped when the log is
\* full; a call that rejects is logged exactly once, with the error the
\* caller receives, and a call that resolves, with a value or with the
\* fallback's result, logs nothing; the counts by type of getErrorStats sum
\* to its total.
C38_ErrorLogRing ==
  [][/\ Len(errorLog') <= maxErrorHistory
     /\ errorLog' # errorLog =>
          /\ errorLog' # <<>>
          /\ errorLog' = MostRecent(Append(errorLog, errorLog'[Len(errorLog')]))
     /\ CallEnds /\ guard'.outcome.kind = "error" =>
          errorLog' = MostRecent(Append(errorLog, [type |-> guard'.outcome.type,
                                                    message |-> guard'.outcome.message]))
     /\ CallEnds /\ guard'.outcome.kind # "error" => errorLog' = errorLog
     /\ ~CallEnds /\ guard' # guard => errorLog' = errorLog
     /\ LET stats1 == getErrorStats(errorLog') IN
        /\ stats1.total = Len(errorLog')
        /\ SumOver(stats1.byType, DOMAIN stats1.byType) = stats1.total]_vars

\* the log is full, its first entry has been dropped, and its last entry is
\* the error the caller of the second call has just received
C38_Witness ==
  /\ Len(errorLog) = maxErrorHistory
  /\ errorLog[1].type = "Error"
  /\ guard.pc = "done" /\ guard.n = LoggedCalls /\ guard.outcome.kind = "error"
  /\ errorLog[maxErrorHistory].message = guard.outcome.message
  /\ Cardinality(ErrorTypes(errorLog)) = 2

====
